---- MODULE Spec2Model ----
(***************************************************************************)
(* growxbot: the verification pipeline of src/src/handlers.js (per-user    *)
(* session map, idle sweep, lazily created Tesseract worker, the           *)
(* screenshot handler with its awaits) and the layout classifier of        *)
(* src/src/ocr.js.                                                         *)
(*                                                                         *)
(* Strings of the program are sequences of one-character strings, so that  *)
(* trim, replace, toLowerCase, includes and the regular-expression tests   *)
(* are computed and not assumed.  A session is a JavaScript object: the    *)
(* map userSessions holds references into heap, and so does the local      *)
(* variable session of a running screenshot handler.  The code reads       *)
(* session.startTime only in Date.now() - session.startTime, so a session  *)
(* keeps that difference, its age in milliseconds, which grows with every  *)
(* period of the sweep timer and stops growing at AgeCap, beyond the       *)
(* timeout.  The rate limiter of part_002 drops an update before any       *)
(* handler runs: the actions are the updates it admits.                    *)
(***************************************************************************)
EXTENDS Integers, Sequences, FiniteSets, TLC

\* ------------------------------------------------------------------ bounds
NumUsers == 2
MaxTicks == 8
MaxDenials == 4
MaxTasks == 2
MaxPhotos == 1
MaxHandleLen == 3

\* --------------------------------------------------------------- constants
ADMIN_ID == 1
SESSION_TIMEOUT == 10 * 60 * 1000
SWEEP_INTERVAL == 5 * 60 * 1000
AgeCap == SESSION_TIMEOUT + SWEEP_INTERVAL

Users == 1..NumUsers
Tasks == 1..MaxTasks
ObjIds == 1..(NumUsers + MaxTasks)
Absent == 0

\* A field that is null or undefined is <<>>, a value v is <<v>>.
Null == <<>>
Some(v) == <<v>>

\* ------------------------------------------------------------------ strings
Range(s) == {s[i] : i \in 1..Len(s)}

UpperChars ==
  <<"A","B","C","D","E","F","G","H","I","J","K","L","M",
    "N","O","P","Q","R","S","T","U","V","W","X","Y","Z">>
LowerChars ==
  <<"a","b","c","d","e","f","g","h","i","j","k","l","m",
    "n","o","p","q","r","s","t","u","v","w","x","y","z">>
Digits == {"0","1","2","3","4","5","6","7","8","9"}
Whitespace == {" ", "\n", "\t"}

\* String.prototype.toLowerCase
LowerChar(c) ==
  IF \E i \in 1..26 : UpperChars[i] = c
  THEN LowerChars[CHOOSE i \in 1..26 : UpperChars[i] = c]
  ELSE c
toLowerCase(s) == [i \in 1..Len(s) |-> LowerChar(s[i])]

\* String.prototype.trim
RECURSIVE trimStart(_)
trimStart(s) ==
  IF s # <<>> /\ Head(s) \in Whitespace THEN trimStart(Tail(s)) ELSE s
RECURSIVE trimEnd(_)
trimEnd(s) ==
  IF s # <<>> /\ s[Len(s)] \in Whitespace
  THEN trimEnd(SubSeq(s, 1, Len(s) - 1)) ELSE s
trim(s) == trimEnd(trimStart(s))

\* String.prototype.includes
includes(s, sub) ==
  \E i \in 0..(Len(s) - Len(sub)) :
     \A j \in 1..Len(sub) : s[i + j] = sub[j]

\* String.prototype.startsWith, for a one-character prefix
startsWith(s, c) == s # <<>> /\ s[1] = c

\* ------------------------------------------------------- the username step
\* A variant of handlers.js:1303 that also folds the case
StripHandleLower(text) == toLowerCase(trim(text))

\* handlers.js:1303   ctx.message.text.trim().replace(/^@/, "")
StripHandle(text) ==
  LET t == trim(text) IN IF startsWith(t, "@") THEN Tail(t) ELSE t

\* handlers.js:1309   /^[a-zA-Z0-9_]+$/
HandleChars == Range(UpperChars) \cup Range(LowerChars) \cup Digits \cup {"_"}
MatchesHandleRegex(username) ==
  username # <<>> /\ \A i \in 1..Len(username) : username[i] \in HandleChars

\* A variant of handlers.js:1305-1311 without the test of the characters
UsernameCheckLengthOnly(username) ==
  IF Len(username) < 1 \/ Len(username) > 15 THEN "bad_length" ELSE "ok"

\* handlers.js:1305-1311: "ok", or the check that rejects the text
UsernameCheck(username) ==
  IF Len(username) < 1 \/ Len(username) > 15 THEN "bad_length"
  ELSE IF ~MatchesHandleRegex(username) THEN "bad_chars"
  ELSE "ok"

\* The texts a user sends (ctx.message.text is a non-empty string)
TextInputs ==
  { <<"a","b">>,
    <<"@","a","b">>,
    <<" ","a","b"," ">>,
    <<"@">>,
    <<" ">>,
    <<"a"," ","b">>,
    <<"@","@","a">>,
    <<"v","a","l","i","d","_","h","a","n","d","l","e","1","2","3","4">> }

\* The texts sent in the username step: every string of up to MaxHandleLen
\* characters over HandleAlphabet, the texts above, and a handle and a text of
\* the greatest length taken and the least length refused
HandleAlphabet == {"a", "Z", "7", "_"}
LongestHandle == <<"v","a","l","i","d","_","h","a","n","d","l","e","1","2","3">>
HandleTexts ==
  UNION {[1..n -> HandleAlphabet] : n \in 1..MaxHandleLen}
    \cup TextInputs
    \cup {LongestHandle, <<"h","i","!">>, <<"a","@","b">>}

\* ------------------------------------------------------------ src/src/ocr.js
\* String.prototype.replace(/c/g, r) for one character c; r = <<>> removes it
RECURSIVE replaceAll(_, _, _)
replaceAll(s, c, r) ==
  IF s = <<>> THEN <<>>
  ELSE (IF Head(s) = c THEN r ELSE <<Head(s)>>) \o replaceAll(Tail(s), c, r)

\* A variant of ocr.js:8-17 that trims before it replaces
normalizeTextTrimFirst(text) ==
  IF text = <<>> THEN <<>>
  ELSE toLowerCase(
         replaceAll(replaceAll(replaceAll(replaceAll(trim(text),
           "0", <<"o">>), "1", <<"l">>), "|", <<"l">>), "@", <<>>))

\* ocr.js:8-17.  A missing text is the empty string, which is falsy too.
normalizeText(text) ==
  IF text = <<>> THEN <<>>
  ELSE trim(toLowerCase(
         replaceAll(replaceAll(replaceAll(replaceAll(text,
           "0", <<"o">>), "1", <<"l">>), "|", <<"l">>), "@", <<>>)))

kwJoined == <<"j","o","i","n","e","d">>
kwFollowing == <<"f","o","l","l","o","w","i","n","g">>
kwFollowers == <<"f","o","l","l","o","w","e","r","s">>
kwFollow == <<"f","o","l","l","o","w">>
kwFoll0wing == <<"f","o","l","l","0","w","i","n","g">>
kwF0llow == <<"f","0","l","l","o","w">>

\* ocr.js:41-42.  relY = ((y0 + y1) / 2) / height is kept as the fraction
\* (y0 + y1) / (2 * height); a comparison with the literal p/100 is made on
\* integers.  height and width are positive.
RelGE(num, den, pct) == num * 100 >= pct * den
RelLE(num, den, pct) == num * 100 <= pct * den
RelLT(num, den, pct) == num * 100 < pct * den

NoElements ==
  [displayName |-> <<>>, username |-> <<>>, joinedDate |-> <<>>,
   followingRow |-> <<>>, followButton |-> <<>>]

\* A variant of ocr.js:56 whose window ends at relY 0.50
InDisplayNameWindowHigh(ny, dy, nx, dx) ==
  RelGE(ny, dy, 15) /\ RelLE(ny, dy, 50) /\ RelLT(nx, dx, 60)
\* ocr.js:56
InDisplayNameWindow(ny, dy, nx, dx) ==
  RelGE(ny, dy, 15) /\ RelLE(ny, dy, 55) /\ RelLT(nx, dx, 60)
\* A variant of ocr.js:62 whose window starts at relY 0.25
InUsernameWindowLow(ny, dy, nx, dx) ==
  RelGE(ny, dy, 25) /\ RelLE(ny, dy, 65) /\ RelLT(nx, dx, 60)
\* ocr.js:62
InUsernameWindow(ny, dy, nx, dx) ==
  RelGE(ny, dy, 20) /\ RelLE(ny, dy, 65) /\ RelLT(nx, dx, 60)
\* ocr.js:71
InJoinedWindow(ny, dy, nx, dx) ==
  RelGE(ny, dy, 30) /\ RelLE(ny, dy, 90) /\ RelLT(nx, dx, 60)
\* ocr.js:77
InFollowingRowWindow(ny, dy) ==
  RelGE(ny, dy, 40) /\ RelLE(ny, dy, 95)
\* A variant of ocr.js:82 without the bounds on relX
InFollowButtonRows(ny, dy, nx, dx) == RelGE(ny, dy, 30) /\ RelLE(ny, dy, 60)
\* ocr.js:82
InFollowButtonWindow(ny, dy, nx, dx) ==
  RelGE(nx, dx, 60) /\ RelLE(nx, dx, 98) /\ RelGE(ny, dy, 30) /\ RelLE(ny, dy, 60)

\* A variant of ocr.js:63 that takes no word for a handle
IsHandleNever(rawText) == FALSE

\* A variant of ocr.js:63 that looks for the mark in the normalized text
IsHandleNormalized(rawText) ==
  startsWith(normalizeText(rawText), "@") \/ startsWith(normalizeText(rawText), "(c)")

\* ocr.js:63
IsHandle(rawText) == startsWith(rawText, "@") \/ startsWith(rawText, "(c)")

\* ocr.js:46-86: the body of the scan loop for one word
ScanWord(elements, word, width, height) ==
  LET rawText == word.text
      text == normalizeText(rawText)
      ny == word.bbox.y0 + word.bbox.y1
      nx == word.bbox.x0 + word.bbox.x1
      dy == 2 * height
      dx == 2 * width
      e1 == IF InDisplayNameWindow(ny, dy, nx, dx) /\ elements.displayName = <<>>
            THEN [elements EXCEPT !.displayName =
                    <<[text |-> rawText, y |-> ny, isStrong |-> FALSE]>>]
            ELSE elements
      e2 == IF InUsernameWindow(ny, dy, nx, dx)
               /\ (e1.username = <<>>
                   \/ (IsHandle(rawText) /\ ~e1.username[1].isStrong))
            THEN [e1 EXCEPT !.username =
                    <<[text |-> rawText, y |-> ny, isStrong |-> IsHandle(rawText)]>>]
            ELSE e1
      e3 == IF InJoinedWindow(ny, dy, nx, dx) /\ includes(text, kwJoined)
            THEN [e2 EXCEPT !.joinedDate =
                    <<[text |-> rawText, y |-> ny, isStrong |-> TRUE]>>]
            ELSE e2
      e4 == IF InFollowingRowWindow(ny, dy)
               /\ (includes(text, kwFollowing) \/ includes(text, kwFollowers))
            THEN [e3 EXCEPT !.followingRow =
                    <<[text |-> rawText, y |-> ny, isStrong |-> TRUE]>>]
            ELSE e3
      e5 == IF InFollowButtonWindow(ny, dy, nx, dx)
               /\ (includes(text, kwFollowing) \/ includes(text, kwFollow))
            THEN [e4 EXCEPT !.followButton =
                    <<[text |-> rawText, y |-> ny, raw |-> rawText]>>]
            ELSE e4
  IN IF Len(text) < 2 THEN elements ELSE e5

\* ocr.js:45: for (const word of words)
RECURSIVE ScanWords(_, _, _, _)
ScanWords(elements, words, width, height) ==
  IF words = <<>> THEN elements
  ELSE ScanWords(ScanWord(elements, Head(words), width, height),
                 Tail(words), width, height)

\* ocr.js:91-96
OrderChecks(elements) ==
  elements.displayName \o elements.username
    \o elements.joinedDate \o elements.followingRow

\* A variant of ocr.js:101-110 whose test is el.y <= lastY
RECURSIVE OutOfOrderOrLevel(_, _)
OutOfOrderOrLevel(els, lastY) ==
  IF els = <<>> THEN FALSE
  ELSE IF Head(els).y <= lastY THEN TRUE
  ELSE OutOfOrderOrLevel(Tail(els), Head(els).y)

\* A variant of ocr.js:101-110 that lets every order pass
OutOfOrderNever(els, lastY) == FALSE

\* ocr.js:101-110: TRUE when some present element lies above the one before it
RECURSIVE OutOfOrder(_, _)
OutOfOrder(els, lastY) ==
  IF els = <<>> THEN FALSE
  ELSE IF Head(els).y < lastY THEN TRUE
  ELSE OutOfOrder(Tail(els), Head(els).y)

\* A variant of the count of ocr.js:108 that takes the follow button in
FoundCountWithButton(elements) ==
  Len(OrderChecks(elements)) + Len(elements.followButton)

FoundCount(elements) == Len(OrderChecks(elements))
\* A variant of the count of ocr.js:109 that takes every present landmark
StrongCountAll(elements) == Len(OrderChecks(elements))

StrongCount(elements) ==
  Cardinality({i \in 1..Len(OrderChecks(elements)) : OrderChecks(elements)[i].isStrong})

\* A variant of ocr.js:113-121 that looks for "follow" first
FollowStateFollowFirst(elements) ==
  IF elements.followButton = <<>> THEN "unknown"
  ELSE LET btnText == normalizeText(elements.followButton[1].raw) IN
       IF includes(btnText, kwFollow) \/ includes(btnText, kwF0llow)
       THEN "not_following"
       ELSE IF includes(btnText, kwFollowing) \/ includes(btnText, kwFoll0wing)
       THEN "following"
       ELSE "unknown"

\* ocr.js:113-121
FollowStateOf(elements) ==
  IF elements.followButton = <<>> THEN "unknown"
  ELSE LET btnText == normalizeText(elements.followButton[1].raw) IN
       IF includes(btnText, kwFollowing) \/ includes(btnText, kwFoll0wing)
       THEN "following"
       ELSE IF includes(btnText, kwFollow) \/ includes(btnText, kwF0llow)
       THEN "not_following"
       ELSE "unknown"

Verdict(v, r, f, c) ==
  [isValid |-> v, reason |-> r, followState |-> f, confidence |-> c]

\* ocr.js:27   !ocrData || !ocrData.words || ocrData.words.length === 0; the
\* result object and its word list are Null when absent
HasNoWords(ocrData) ==
  ocrData = Null \/ ocrData[1].words = Null \/ ocrData[1].words[1] = <<>>

\* A variant of the verdict of ocr.js:28 with the confidence of ocr.js:126
NoTextFoundGuess == Verdict(FALSE, "No text found", "unknown", 20)

\* ocr.js:28
NoTextFound == Verdict(FALSE, "No text found", "unknown", 0)

\* A variant of ocr.js:26-139 whose invalid verdicts carry the follow state
\* that ocr.js:113-121 found
validateProfileLayoutKeepsState(ocrData, width, height) ==
  IF HasNoWords(ocrData) THEN NoTextFound
  ELSE
    LET words == ocrData[1].words[1]
        elements == ScanWords(NoElements, words, width, height) IN
    IF OutOfOrder(OrderChecks(elements), 0)
    THEN Verdict(FALSE, "Layout mismatch (elements out of order)", "unknown", 50)
    ELSE IF FoundCount(elements) < 2
    THEN Verdict(FALSE, "Not enough profile elements found",
                 FollowStateOf(elements), 20)
    ELSE IF StrongCount(elements) = 0 /\ FoundCount(elements) < 3
    THEN Verdict(FALSE,
           "Ambiguous layout (no strong markers like '@', 'joined', 'following')",
           FollowStateOf(elements), 40)
    ELSE Verdict(TRUE, "Valid layout", FollowStateOf(elements),
                 IF StrongCount(elements) > 1 THEN 95 ELSE 85)

\* ocr.js:26-139
validateProfileLayout(ocrData, width, height) ==
  IF HasNoWords(ocrData) THEN NoTextFound
  ELSE
    LET words == ocrData[1].words[1]
        elements == ScanWords(NoElements, words, width, height) IN
    IF OutOfOrder(OrderChecks(elements), 0)
    THEN Verdict(FALSE, "Layout mismatch (elements out of order)", "unknown", 50)
    ELSE IF FoundCount(elements) < 2
    THEN Verdict(FALSE, "Not enough profile elements found", "unknown", 20)
    ELSE IF StrongCount(elements) = 0 /\ FoundCount(elements) < 3
    THEN Verdict(FALSE,
           "Ambiguous layout (no strong markers like '@', 'joined', 'following')",
           "unknown", 40)
    ELSE Verdict(TRUE, "Valid layout", FollowStateOf(elements),
                 IF StrongCount(elements) > 1 THEN 95 ELSE 85)

\* ------------------------------------------------- src/src/handlers.js state
VARIABLES
  userSessions,    \* handlers.js:54: user id -> session object, or Absent
  heap,            \* the session objects
  tasks,           \* the screenshot handlers in flight, each at an await
  tesseractWorker, \* handlers.js:20: 0 is null, else the worker's number
  createCalls,     \* createWorker calls that are pending or have succeeded
  dbUsers,         \* Database.users of part_001
  adminGroup,      \* the messages the bot has sent to ADMIN_GROUP_ID
  photos,          \* screenshots submitted so far
  lastEvent        \* what the last handler step did

vars ==
  <<userSessions, heap, tasks, tesseractWorker, createCalls,
    dbUsers, adminGroup, photos, lastEvent>>

\* ------------------------------------------------- src/src/utils.js state
VARIABLES
  userRateLimits,  \* utils.js:25: user id -> { count, resetTime }, or Null
  now,             \* Date.now(), in milliseconds since the process started
  admitted         \* history: the calls admitted for a user since the window
                   \* of the user was last set

limiterVars == <<userRateLimits, now, admitted>>
allVars == <<vars, limiterVars>>

\* The handlers of handlers.js do not touch the rate limiter of utils.js
NoLimiterStep == UNCHANGED limiterVars

\* JavaScript truthiness of a string-or-null field
Truthy(opt) == opt # Null /\ opt[1] # <<>>

Steps == {"username", "follow_check", "screenshot", "done"}

FreeObj == [step |-> "free", username |-> Null, attempts |-> 0, age |-> 0]

\* A variant of the object of handlers.js:58-63 that starts one step further
NewSessionSkipped ==
  [step |-> "follow_check", username |-> Null, attempts |-> 0, age |-> 0]

\* handlers.js:58-63: the object resetSession builds; startTime is Date.now()
NewSession ==
  [step |-> "username", username |-> Null, attempts |-> 0, age |-> 0]

NoVerdict == Verdict(FALSE, "", "unknown", 0)

IdleTask ==
  [pc |-> "idle", user |-> 0, ref |-> Absent, photoNo |-> 0,
   verdict |-> NoVerdict, hasOwner |-> FALSE,
   decision |-> "none", caught |-> "none", error |-> "", recorded |-> FALSE,
   data |-> Null]

\* Objects that the map or a running handler still refers to; the others are
\* garbage and their slots are free.
Refs(us, tk) == ({us[u] : u \in Users} \cup {tk[t].ref : t \in Tasks}) \ {Absent}
InMap(us) == {us[u] : u \in Users} \ {Absent}
\* The age of an object that the map no longer holds is never read again
\* (handlers.js:68 walks the map): it is kept as 0.
Collect(h, us, tk) ==
  [o \in ObjIds |->
     IF o \notin Refs(us, tk) THEN FreeObj
     ELSE IF o \notin InMap(us) THEN [h[o] EXCEPT !.age = 0]
     ELSE h[o]]

\* Has the map an entry for u (handlers.js: userSessions[userId] is truthy)
HasSession(u) == userSessions[u] # Absent
Session(u) == heap[userSessions[u]]

\* The slot of the object a resetSession(u) creates: slot u when nothing but
\* u's own map entry refers to it, else the least free one of the others.
NewId(u) ==
  LET held == Refs([userSessions EXCEPT ![u] = Absent], tasks)
      spare == (ObjIds \ Users) \ held
  IN IF u \notin held THEN u
     ELSE CHOOSE o \in spare : \A p \in spare : o <= p

\* What a handler step did: which handler, for whom, and its reply to that user
Event(op, u, reply) == [op |-> op, user |-> u, reply |-> reply]

\* handlers.js:57-64
resetSessionMap(u) == [userSessions EXCEPT ![u] = NewId(u)]
resetSessionHeap(u) == [heap EXCEPT ![NewId(u)] = NewSession]

\* A variant of handlers.js:69 that gives a session one more timer period
ExpiredLate(session) == session.age > SESSION_TIMEOUT + SWEEP_INTERVAL

\* A variant of handlers.js:69 that also takes a session at the timeout
ExpiredAtTimeout(session) == session.age >= SESSION_TIMEOUT

\* handlers.js:69   now - session.startTime > SESSION_TIMEOUT
Expired(session) == session.age > SESSION_TIMEOUT

\* A variant of the guard of handlers.js:442 that tests the session only
AckRejectedNoHandle(u) == ~HasSession(u)

\* handlers.js:442: the guard of the "I have followed" button
AckRejected(u) == ~HasSession(u) \/ ~Truthy(Session(u).username)

\* What every action that leaves the screenshot handlers alone leaves unchanged
NoTaskStep == UNCHANGED <<tasks, tesseractWorker, createCalls, photos>>

Init ==
  /\ userSessions = [u \in Users |-> Absent]
  /\ heap = [o \in ObjIds |-> FreeObj]
  /\ tasks = [t \in Tasks |-> IdleTask]
  /\ tesseractWorker = 0
  /\ createCalls = 0
  /\ dbUsers = [u \in Users |-> Null]
  /\ adminGroup = {}
  /\ photos = 0
  /\ lastEvent = Event("init", 0, "none")
  /\ userRateLimits = [u \in Users |-> Null]
  /\ now = 0
  /\ admitted = [u \in Users |-> 0]

\* handlers.js:73: the timer period has passed since the previous callback, so
\* Date.now() is SWEEP_INTERVAL later for every session the map holds.
Older(session) ==
  [session EXCEPT !.age = IF @ + SWEEP_INTERVAL > AgeCap THEN AgeCap ELSE @ + SWEEP_INTERVAL]

Aged(h, us) == [o \in ObjIds |-> IF o \in InMap(us) THEN Older(h[o]) ELSE h[o]]

\* handlers.js:67-72: the sessions the sweep keeps, h holding their ages at `now`
Swept(us, h) ==
  [u \in Users |-> IF us[u] # Absent /\ Expired(h[us[u]]) THEN Absent ELSE us[u]]

\* handlers.js:66-73: the setInterval callback, run when its period has passed.
\* Handlers run between two callbacks; the sessions they create are as old as
\* the periods that have passed since.
Sweep ==
  /\ userSessions' = Swept(userSessions, Aged(heap, userSessions))
  /\ heap' = Collect(Aged(heap, userSessions), userSessions', tasks)
  /\ lastEvent' = Event("sweep", 0, "none")
  /\ UNCHANGED <<dbUsers, adminGroup>>
  /\ NoTaskStep
  /\ NoLimiterStep

\* handlers.js:399-438   bot.start
Start(u) ==
  /\ IF u = ADMIN_ID
     THEN /\ lastEvent' = Event("start", u, "welcome_boss")
          /\ UNCHANGED <<userSessions, heap>>
     ELSE IF dbUsers[u] # Null /\ dbUsers[u][1].verified
     THEN /\ lastEvent' = Event("start", u, "already_verified")
          /\ UNCHANGED <<userSessions, heap>>
     ELSE /\ userSessions' = resetSessionMap(u)
          /\ heap' = Collect(resetSessionHeap(u), resetSessionMap(u), tasks)
          /\ lastEvent' = Event("start", u, "welcome")
  /\ UNCHANGED <<dbUsers, adminGroup>>
  /\ NoTaskStep
  /\ NoLimiterStep

\* handlers.js:461-464   bot.command("cancel")
Cancel(u) ==
  /\ userSessions' = resetSessionMap(u)
  /\ heap' = Collect(resetSessionHeap(u), resetSessionMap(u), tasks)
  /\ lastEvent' = Event("cancel", u, "cancelled")
  /\ UNCHANGED <<dbUsers, adminGroup>>
  /\ NoTaskStep
  /\ NoLimiterStep

\* handlers.js:440-459   bot.action("i_have_followed")
IHaveFollowed(u) ==
  /\ IF AckRejected(u)
     THEN /\ lastEvent' = Event("i_have_followed", u, "session_expired")
          /\ UNCHANGED heap
     ELSE /\ heap' = [heap EXCEPT ![userSessions[u]].step = "screenshot"]
          /\ lastEvent' = Event("i_have_followed", u, "send_screenshot")
  /\ UNCHANGED <<userSessions, dbUsers, adminGroup>>
  /\ NoTaskStep
  /\ NoLimiterStep

\* handlers.js:1196   the admin's session is waiting for the broadcast text
Broadcasting(u) ==
  u = ADMIN_ID /\ HasSession(ADMIN_ID) /\ Session(ADMIN_ID).step = "broadcast_msg"

\* handlers.js:1458-1470   the replies to an input the step does not take
InvalidInputReply(step) ==
  IF step = "username" THEN "send_text_only"
  ELSE IF step = "screenshot" THEN "send_a_photo"
  ELSE IF step = "done" THEN "pending_review"
  ELSE "type_start"

\* handlers.js:1192-1329, 1458-1470   bot.on("message"), a text in a private chat
TextMessage(u, text) ==
  /\ IF Broadcasting(u)
     THEN \* handlers.js:1196-1228: sent to the verified users, session deleted
          /\ userSessions' = [userSessions EXCEPT ![u] = Absent]
          /\ heap' = Collect(heap, [userSessions EXCEPT ![u] = Absent], tasks)
          /\ lastEvent' = Event("text", u, "broadcast_done")
     ELSE IF ~HasSession(u)
     THEN \* handlers.js:1295-1297
          /\ lastEvent' = Event("text", u, "type_start_to_get_verified")
          /\ UNCHANGED <<userSessions, heap>>
     ELSE IF Session(u).step = "username"
     THEN LET username == StripHandle(text) IN
          IF UsernameCheck(username) = "ok"
          THEN /\ heap' = [heap EXCEPT ![userSessions[u]] =
                             [@ EXCEPT !.username = Some(username),
                                       !.step = "follow_check"]]
               /\ lastEvent' = Event("text", u, "saved")
               /\ UNCHANGED userSessions
          ELSE /\ lastEvent' = Event("text", u, UsernameCheck(username))
               /\ UNCHANGED <<userSessions, heap>>
     ELSE /\ lastEvent' = Event("text", u, InvalidInputReply(Session(u).step))
          /\ UNCHANGED <<userSessions, heap>>
  /\ UNCHANGED <<dbUsers, adminGroup>>
  /\ NoTaskStep
  /\ NoLimiterStep

\* ------------------------------------------- what the recognition call returns
OWNER_X == <<"G","r","o","w","X">>
FALLBACK_WIDTH == 1000
FALLBACK_HEIGHT == 2000

\* A word whose box is centred on (cx, cy)
Word(text, cx, cy) ==
  [text |-> text,
   bbox |-> [x0 |-> cx - 10, y0 |-> cy - 10, x1 |-> cx + 10, y1 |-> cy + 10]]

wJane == <<"J","a","n","e"," ","D","o","e">>
wHandle == <<"@","j","a","n","e","d","o","e">>
wJoined == <<"J","o","i","n","e","d"," ","2","0","2","0">>
wFollowing == <<"F","o","l","l","o","w","i","n","g">>
wFollow == <<"F","o","l","l","o","w">>
txtOwner == <<"J","a","n","e"," ","@","G","R","O","W","x"," ","F","o","l","l","o","w","i","n","g">>
txtOther == <<"J","a","n","e"," ","F","o","l","l","o","w","i","n","g">>

ProfileWords(button) ==
  <<Word(wJane, 200, 500), Word(wHandle, 200, 600), Word(wJoined, 200, 1000),
    Word(button, 850, 700)>>

\* ret.data of handlers.js:1358; dims is what the hocr gives (handlers.js:1366-1369)
OcrData(words, text, dims, confidence) ==
  [words |-> words, text |-> text, dims |-> dims, confidence |-> confidence]

OcrResults ==
  { OcrData(Some(ProfileWords(wFollowing)), txtOwner, Null, 91),
    OcrData(Some(ProfileWords(wFollowing)), txtOther, Null, 90),
    OcrData(Some(ProfileWords(wFollow)), txtOwner, Some(<<1000, 2000>>), 88),
    OcrData(Some(<<Word(wJane, 200, 1000), Word(wHandle, 200, 400)>>), txtOwner, Null, 70) }

\* Widths and heights that the handler reads from the hocr output
DimValues == {0, 1, 1000, 2000}

\* Results without words: the word list is missing or empty, the text is empty
WordlessResults ==
  {OcrData(words, <<>>, dims, 0) :
     words \in {Null, Some(<<>>)},
     dims \in {Null} \cup {Some(<<w, h>>) : w \in DimValues, h \in DimValues}}

wHi == <<"h","i">>
wNoise == <<"x">>
wFollowers == <<"1","2"," ","F","0","L","L","O","W","E","R","S">>

\* A result of the fallback size (handlers.js:1371-1372) that holds words alone
WordsOnly(words) == OcrData(Some(words), <<>>, Null, 80)

\* Centres of boxes on a 1000 x 2000 image: on and around the edges of the
\* windows of ocr.js:56-82
EdgeXs == {200, 590, 600, 850, 980, 990}
EdgeYs == {200, 300, 400, 600, 800, 1100, 1200, 1300, 1800, 1900, 1950}
wShortHandle == <<"@","x">>
wJoinedHandle == <<"@","j","o","i","n","e","d">>
SingleTexts ==
  {wJane, wHandle, wJoined, wFollowing, wFollow, wFollowers, wHi, wNoise,
   wShortHandle, wJoinedHandle}
SingleWords == {Word(text, cx, cy) : text \in SingleTexts, cx \in EdgeXs, cy \in EdgeYs}

\* Words for the lists of several words
PairXs == {200, 850}
PairYs == {700, 1000, 1800}
PairTexts == {wJane, wHandle, wJoined, wFollowing}
PairWords == {Word(text, cx, cy) : text \in PairTexts, cx \in PairXs, cy \in PairYs}

MaxWords == 2

WordLists ==
  {<<w>> : w \in SingleWords}
    \cup UNION {[1..n -> PairWords] : n \in 2..MaxWords}

\* Four words of a profile page on a 1000 x 2000 image: a name at relY 0.3
\* and relX 0.2, a handle at 0.25 and 0.2, a date at 0.5 and 0.2, and the
\* button text at relY 0.45 and relX 0.85
ScenarioWords(button) ==
  <<Word(wJane, 200, 600), Word(wHandle, 200, 500), Word(wJoined, 200, 1000),
    Word(button, 850, 900)>>

\* Two words on the left of a 1000 x 2000 image, the first at relY 0.5 and the
\* second at relY 0.2
ReversedPairs ==
  {<<Word(first, 200, 1000), Word(second, 200, 400)>> :
     first \in {wJane, wHandle}, second \in {wJane, wHi, wHandle}}

\* A word in the middle of the left half and a word in the button window
ButtonPairs ==
  {<<Word(row, 200, 1000), Word(button, 850, 1000)>> :
     row \in {wJoined, wFollowing, wFollowers}, button \in {wFollow, wFollowing, wHi}}

ScenarioResults ==
  {OcrData(Some(words), <<>>, Some(<<1000, 2000>>), 80) :
     words \in {ScenarioWords(wFollowing), ScenarioWords(wFollow)}
                 \cup ReversedPairs \cup ButtonPairs}

\* Texts of up to MaxTextLen characters: letters, the digits and the bar that
\* are rewritten, the handle mark and the blank
MaxTextLen == 3
TextAlphabet == {"a", "B", "0", "1", "|", "@", " "}
ShortTexts == UNION {[1..n -> TextAlphabet] : n \in 0..MaxTextLen}

\* Results of one word, in the middle of the left half, with a short text
TextResults == {WordsOnly(<<Word(text, 200, 1000)>>) : text \in ShortTexts}

\* The results that the classifier is tried on
LayoutInputs ==
  OcrResults \cup WordlessResults \cup ScenarioResults
    \cup {WordsOnly(words) : words \in WordLists}

ErrorMessages == {"Network error", "Error: image too large"}
SendError == "403: Forbidden: bot was blocked by the user"

\* handlers.js:1371-1376
WidthOf(data) == IF data.dims = Null THEN FALLBACK_WIDTH ELSE data.dims[1][1]
HeightOf(data) == IF data.dims = Null THEN FALLBACK_HEIGHT ELSE data.dims[1][2]

\* handlers.js:1378
ValidationOf(data) == validateProfileLayout(Some(data), WidthOf(data), HeightOf(data))

\* handlers.js:1382-1383
HasOwner(data) == includes(toLowerCase(data.text), toLowerCase(OWNER_X))

\* A variant of the test of handlers.js:1385 that leaves the owner check out
AutoVerifyNoOwner(validation, hasOwner) ==
  validation.isValid /\ validation.followState = "following"

\* handlers.js:1385
AutoVerify(validation, hasOwner) ==
  validation.isValid /\ validation.followState = "following" /\ hasOwner

\* A variant of handlers.js:1415-1417 without the owner note of line 1417
ReviewReasonNoNote(validation, hasOwner) ==
  IF validation.followState = "not_following"
  THEN <<"Detected 'Follow' button (Not Following)">>
  ELSE <<validation.reason>>

\* handlers.js:1415-1417: the pieces of the reason string
ReviewReason(validation, hasOwner) ==
  (IF validation.followState = "not_following"
   THEN <<"Detected 'Follow' button (Not Following)">>
   ELSE <<validation.reason>>)
  \o (IF hasOwner THEN <<>> ELSE <<" | Owner username not found">>)

\* A message in the operator channel; only the review request of
\* handlers.js:1426-1439 shows a reason and a follow state
AdminMsg(kind, tk, reason, error, buttons) ==
  [kind |-> kind, user |-> tk.user, photoNo |-> tk.photoNo,
   handle |-> heap[tk.ref].username, reason |-> reason,
   followState |-> IF kind = "review" THEN tk.verdict.followState ELSE "",
   error |-> error, buttons |-> buttons]

TaskEvent(op, tk, reply) == Event(op, tk.user, reply)

\* The handler of task t has returned or thrown: its slot is free again.
Finish(t, us, h) ==
  /\ tasks' = [tasks EXCEPT ![t] = IdleTask]
  /\ userSessions' = us
  /\ heap' = Collect(h, us, [tasks EXCEPT ![t] = IdleTask])

\* An error leaves the handler: bot.catch, handlers.js:1522-1529
Crash(t, op) ==
  /\ Finish(t, userSessions, heap)
  /\ lastEvent' = TaskEvent(op, tasks[t], "glitch")

\* handlers.js:1442-1445: catch (error), up to the call of ctx.reply
EnterCatch(t, op, reply, cause, message) ==
  LET tk == [tasks[t] EXCEPT !.pc = "catch_sends", !.caught = cause,
                             !.error = message]
  IN /\ tasks' = [tasks EXCEPT ![t] = tk]
     /\ heap' = [heap EXCEPT ![tasks[t].ref].step = "done"]
     /\ lastEvent' = TaskEvent(op, tasks[t], reply)
     /\ UNCHANGED userSessions

IdleSlots == {t \in Tasks : tasks[t].pc = "idle"}

\* handlers.js:1332: the message enters the screenshot branch
TakesScreenshot(u) ==
  ~Broadcasting(u) /\ HasSession(u) /\ Session(u).step = "screenshot"

\* handlers.js:1192-1353, 1458-1470   bot.on("message"), a photo in a private chat
PhotoMessage(u) ==
  /\ IF TakesScreenshot(u)
     THEN /\ IdleSlots # {}
          /\ LET t == CHOOSE s \in IdleSlots : \A r \in IdleSlots : s <= r
                 tk == [IdleTask EXCEPT !.pc = "preamble", !.user = u,
                                        !.ref = userSessions[u],
                                        !.photoNo = photos + 1]
             IN /\ tasks' = [tasks EXCEPT ![t] = tk]
                /\ lastEvent' = Event("photo", u, "none")
          /\ photos' = photos + 1
     ELSE /\ lastEvent' = Event("photo", u,
                               IF Broadcasting(u) THEN "send_text_fam"
                               ELSE IF ~HasSession(u) THEN "type_start_to_get_verified"
                               ELSE InvalidInputReply(Session(u).step))
          /\ UNCHANGED <<tasks, photos>>
  /\ UNCHANGED <<userSessions, heap, tesseractWorker,
                 createCalls, dbUsers, adminGroup>>
  /\ NoLimiterStep

\* handlers.js:1351-1357 and 22-42: getFileLink resolves and the reply
\* "Checking..." is delivered (or one of the two fails, and the error leaves the
\* handler); then getWorker runs up to its await of createWorker
PreambleDone(t, ok) ==
  /\ tasks[t].pc = "preamble"
  /\ IF ok
     THEN /\ tasks' = [tasks EXCEPT ![t].pc =
                         IF tesseractWorker # 0 THEN "recognize" ELSE "createWorker"]
          /\ createCalls' = IF tesseractWorker # 0 THEN createCalls ELSE createCalls + 1
          /\ lastEvent' = TaskEvent("preamble", tasks[t], "checking")
          /\ UNCHANGED <<userSessions, heap>>
     ELSE /\ Crash(t, "preamble")
          /\ UNCHANGED createCalls
  /\ UNCHANGED <<tesseractWorker, dbUsers, adminGroup, photos>>
  /\ NoLimiterStep

\* handlers.js:33-48: createWorker resolves (and recognize is called) or rejects
CreateWorkerDone(t, ok, e) ==
  /\ tasks[t].pc = "createWorker"
  /\ IF ok
     THEN /\ tesseractWorker' = tasks[t].photoNo
          /\ tasks' = [tasks EXCEPT ![t].pc = "recognize"]
          /\ lastEvent' = TaskEvent("create_worker", tasks[t], "none")
          /\ UNCHANGED <<userSessions, heap, createCalls>>
     ELSE /\ createCalls' = createCalls - 1
          /\ EnterCatch(t, "create_worker", "none", "recognition", e)
          /\ UNCHANGED tesseractWorker
  /\ UNCHANGED <<dbUsers, adminGroup, photos>>
  /\ NoLimiterStep

\* handlers.js:1358-1419: worker.recognize resolves; the code runs up to the
\* await of db.addUser or, for a manual review, of ctx.reply
RecognizeReturn(t, data) ==
  /\ tasks[t].pc = "recognize"
  /\ LET validation == ValidationOf(data)
         hasOwner == HasOwner(data)
         accept == AutoVerify(validation, hasOwner)
         tk == [tasks[t] EXCEPT
                  !.data = Some(data),
                  !.verdict = validation, !.hasOwner = hasOwner,
                  !.decision = IF accept THEN "auto_accept" ELSE "escalate",
                  !.pc = IF accept THEN "addUser" ELSE "review_sends"]
     IN /\ tasks' = [tasks EXCEPT ![t] = tk]
        /\ heap' = IF accept THEN heap
                   ELSE [heap EXCEPT ![tasks[t].ref].step = "done"]
        /\ lastEvent' = TaskEvent("recognize", tasks[t], "none")
  /\ UNCHANGED <<userSessions, tesseractWorker, createCalls,
                 dbUsers, adminGroup, photos>>
  /\ NoLimiterStep

\* handlers.js:1358, 1442-1445: worker.recognize rejects
RecognizeThrow(t, e) ==
  /\ tasks[t].pc = "recognize"
  /\ EnterCatch(t, "recognize", "none", "recognition", e)
  /\ UNCHANGED <<tesseractWorker, createCalls, dbUsers,
                 adminGroup, photos>>
  /\ NoLimiterStep

\* part_001:71-88   Database.addUser: a failed write is logged and swallowed.
\* Of the stored document the model keeps verified, x_username and
\* warnings_count (part_001:18: default 0; the update leaves it as it is).
addUser(users, id, name, xUsername, ok) ==
  IF ok
  THEN [users EXCEPT ![id] =
          Some([verified |-> TRUE, x_username |-> xUsername,
                warnings_count |-> IF users[id] = Null THEN 0
                                   ELSE users[id][1].warnings_count])]
  ELSE users

\* handlers.js:1387-1389: db.addUser settles, ctx.reply("Verified!") is called
AddUserDone(t, ok) ==
  /\ tasks[t].pc = "addUser"
  /\ dbUsers' = addUser(dbUsers, tasks[t].user, "fullName",
                        heap[tasks[t].ref].username, ok)
  /\ LET tk == [tasks[t] EXCEPT !.pc = "accept_sends", !.recorded = ok]
     IN /\ tasks' = [tasks EXCEPT ![t] = tk]
        /\ lastEvent' = TaskEvent("add_user", tasks[t], "none")
  /\ UNCHANGED <<userSessions, heap, tesseractWorker,
                 createCalls, adminGroup, photos>>
  /\ NoLimiterStep

\* The two sends a branch awaits in a row: both are delivered, or the reply to
\* the user throws, or the message to the operator channel throws
SendOutcomes == {"sent", "reply_failed", "forward_failed"}
ReplyIfDelivered(outcome, reply) == IF outcome = "reply_failed" THEN "none" ELSE reply

\* handlers.js:1389-1410: the reply "Verified!" and the note to the operator;
\* when both are delivered the session is deleted
AcceptSendsDone(t, outcome) ==
  /\ tasks[t].pc = "accept_sends"
  /\ IF outcome = "sent"
     THEN /\ adminGroup' = adminGroup \cup
               {AdminMsg("auto_verified", tasks[t], <<>>, "", FALSE)}
          /\ Finish(t, [userSessions EXCEPT ![tasks[t].user] = Absent], heap)
          /\ lastEvent' = TaskEvent("accept_sends", tasks[t], "verified")
     ELSE /\ EnterCatch(t, "accept_sends", ReplyIfDelivered(outcome, "verified"),
                        "send", SendError)
          /\ UNCHANGED adminGroup
  /\ UNCHANGED <<tesseractWorker, createCalls, dbUsers, photos>>
  /\ NoLimiterStep

\* handlers.js:1419-1440: the reply "Verification Pending" and the screenshot
\* with the Verify and Reject buttons for the operator
ReviewSendsDone(t, outcome) ==
  /\ tasks[t].pc = "review_sends"
  /\ IF outcome = "sent"
     THEN /\ adminGroup' = adminGroup \cup
               {AdminMsg("review", tasks[t],
                         ReviewReason(tasks[t].verdict, tasks[t].hasOwner), "", TRUE)}
          /\ Finish(t, userSessions, heap)
          /\ lastEvent' = TaskEvent("review_sends", tasks[t], "pending")
     ELSE /\ EnterCatch(t, "review_sends", ReplyIfDelivered(outcome, "pending"),
                        "send", SendError)
          /\ UNCHANGED adminGroup
  /\ UNCHANGED <<tesseractWorker, createCalls, dbUsers, photos>>
  /\ NoLimiterStep

\* A variant of handlers.js:1445-1455 whose reply to the user is the message of
\* the error caught
CatchSendsLeaks(t, outcome) ==
  /\ tasks[t].pc = "catch_sends"
  /\ adminGroup' = IF outcome = "sent"
                   THEN adminGroup \cup
                          {AdminMsg("ocr_error", tasks[t], <<>>, tasks[t].error, TRUE)}
                   ELSE adminGroup
  /\ Finish(t, userSessions, heap)
  /\ lastEvent' = TaskEvent("catch_sends", tasks[t],
                            ReplyIfDelivered(outcome, tasks[t].error))
  /\ UNCHANGED <<tesseractWorker, createCalls, dbUsers, photos>>
  /\ NoLimiterStep

\* handlers.js:1445-1455: the reply "Error checking image" and the screenshot
\* with the error for the operator; a failure here leaves the handler
CatchSendsDone(t, outcome) ==
  /\ tasks[t].pc = "catch_sends"
  /\ IF outcome = "sent"
     THEN /\ adminGroup' = adminGroup \cup
               {AdminMsg("ocr_error", tasks[t], <<>>, tasks[t].error, TRUE)}
          /\ Finish(t, userSessions, heap)
          /\ lastEvent' = TaskEvent("catch_sends", tasks[t], "error_checking")
     ELSE /\ Finish(t, userSessions, heap)
          /\ lastEvent' = TaskEvent("catch_sends", tasks[t],
                                    ReplyIfDelivered(outcome, "error_checking"))
          /\ UNCHANGED adminGroup
  /\ UNCHANGED <<tesseractWorker, createCalls, dbUsers, photos>>
  /\ NoLimiterStep

\* ------------------------------------------------------------ operator actions
Unknown == <<"U","n","k","n","o","w","n">>

\* handlers.js:333   session?.username || "Unknown"
UsernameOrUnknown(u) ==
  IF HasSession(u) /\ Truthy(Session(u).username)
  THEN Session(u).username ELSE Some(Unknown)

\* The message loses its buttons: editMessageCaption with an empty keyboard
WithoutButtons(m) == (adminGroup \ {m}) \cup {[m EXCEPT !.buttons = FALSE]}

\* handlers.js:328-361   bot.action(/^verify_(\d+)$/): the button of message m is
\* pressed by a; dbOk: the write succeeds; sendOk: the target can be reached
VerifyButton(a, m, dbOk, sendOk) ==
  /\ m \in adminGroup /\ m.buttons
  /\ IF a # ADMIN_ID
     THEN /\ lastEvent' = Event("verify_button", a, "admin_only")
          /\ UNCHANGED <<userSessions, heap, dbUsers, adminGroup>>
     ELSE /\ dbUsers' = addUser(dbUsers, m.user, "Verified User",
                                UsernameOrUnknown(m.user), dbOk)
          /\ IF sendOk
             THEN /\ adminGroup' = WithoutButtons(m)
                  /\ userSessions' = [userSessions EXCEPT ![m.user] = Absent]
                  /\ heap' = Collect(heap, [userSessions EXCEPT ![m.user] = Absent], tasks)
                  /\ lastEvent' = Event("verify_button", m.user, "verified")
             ELSE /\ lastEvent' = Event("verify_button", m.user, "none")
                  /\ UNCHANGED <<userSessions, heap, adminGroup>>
  /\ NoTaskStep
  /\ NoLimiterStep

\* A variant of handlers.js:363-394 without the test of line 364: anyone may
\* reject
DeclineButtonAnyone(a, m, sendOk) ==
  /\ m \in adminGroup /\ m.buttons
  /\ IF sendOk
     THEN /\ adminGroup' = WithoutButtons(m)
          /\ userSessions' = [userSessions EXCEPT ![m.user] = Absent]
          /\ heap' = Collect(heap, [userSessions EXCEPT ![m.user] = Absent], tasks)
          /\ lastEvent' = Event("decline_button", m.user, "rejected")
     ELSE /\ lastEvent' = Event("decline_button", m.user, "none")
          /\ UNCHANGED <<userSessions, heap, adminGroup>>
  /\ UNCHANGED dbUsers
  /\ NoTaskStep
  /\ NoLimiterStep

\* handlers.js:363-394   bot.action(/^decline_(\d+)$/)
DeclineButton(a, m, sendOk) ==
  /\ m \in adminGroup /\ m.buttons
  /\ IF a = ADMIN_ID /\ sendOk
     THEN /\ adminGroup' = WithoutButtons(m)
          /\ userSessions' = [userSessions EXCEPT ![m.user] = Absent]
          /\ heap' = Collect(heap, [userSessions EXCEPT ![m.user] = Absent], tasks)
          /\ lastEvent' = Event("decline_button", m.user, "rejected")
     ELSE \* "Admin only", or the message to the target user throws
          /\ lastEvent' = IF a = ADMIN_ID THEN Event("decline_button", m.user, "none")
                          ELSE Event("decline_button", a, "admin_only")
          /\ UNCHANGED <<userSessions, heap, adminGroup>>
  /\ UNCHANGED dbUsers
  /\ NoTaskStep
  /\ NoLimiterStep

\* handlers.js:960-965: the first user, in key order, whose session holds the handle
FoundIds(username) ==
  {u \in Users : HasSession(u) /\ Session(u).username # Null
                 /\ toLowerCase(Session(u).username[1]) = toLowerCase(username)}

\* handlers.js:954-975   bot.command("verify"), "/verify <username>"
VerifyCommand(a, username, dbOk, sendOk) ==
  /\ IF a = ADMIN_ID /\ FoundIds(username) # {}
     THEN LET foundId == CHOOSE u \in FoundIds(username) :
                            \A v \in FoundIds(username) : u <= v
          IN /\ dbUsers' = addUser(dbUsers, foundId, "Manually Verified",
                                   Some(username), dbOk)
             /\ IF sendOk
                THEN /\ userSessions' = [userSessions EXCEPT ![foundId] = Absent]
                     /\ heap' = Collect(heap, [userSessions EXCEPT ![foundId] = Absent], tasks)
                     /\ lastEvent' = Event("verify_command", foundId, "admin_verified")
                ELSE /\ lastEvent' = Event("verify_command", foundId, "glitch")
                     /\ UNCHANGED <<userSessions, heap>>
     ELSE /\ lastEvent' = Event("verify_command", a,
                               IF a = ADMIN_ID THEN "not_found" ELSE "none")
          /\ UNCHANGED <<userSessions, heap, dbUsers>>
  /\ UNCHANGED adminGroup
  /\ NoTaskStep
  /\ NoLimiterStep

\* A variant of handlers.js:1111-1126 without the test of line 1112: anyone
\* may open a broadcast
AdminBroadcastAnyone(a) ==
  /\ userSessions' = resetSessionMap(a)
  /\ heap' = Collect([resetSessionHeap(a) EXCEPT ![NewId(a)].step = "broadcast_msg"],
                     resetSessionMap(a), tasks)
  /\ lastEvent' = Event("admin_broadcast", a, "send_the_message")
  /\ UNCHANGED <<dbUsers, adminGroup>>
  /\ NoTaskStep
  /\ NoLimiterStep

\* handlers.js:1111-1126   bot.action("admin_broadcast")
AdminBroadcast(a) ==
  /\ IF a = ADMIN_ID
     THEN /\ userSessions' = resetSessionMap(a)
          /\ heap' = Collect([resetSessionHeap(a) EXCEPT ![NewId(a)].step = "broadcast_msg"],
                             resetSessionMap(a), tasks)
          /\ lastEvent' = Event("admin_broadcast", a, "send_the_message")
     ELSE /\ lastEvent' = Event("admin_broadcast", a, "none")
          /\ UNCHANGED <<userSessions, heap>>
  /\ UNCHANGED <<dbUsers, adminGroup>>
  /\ NoTaskStep
  /\ NoLimiterStep

\* The handles an operator types after /verify
VerifyInputs == {<<"A","B">>, <<"z","z">>}

\* The lines of the caption of a message of the operator channel, by the
\* marker that opens each: handlers.js:1427-1434 (review request), 1448 (error
\* request); the notice of handlers.js:1400-1408 is a text and has no caption
CaptionLines(m) ==
  IF m.kind = "review"
  THEN {"name", "x_handle", "confidence", "reason", "follow_state"}
  ELSE IF m.kind = "ocr_error" THEN {"user", "error"}
  ELSE {}

\* handlers.js:1240   caption.match(/🆔 (\d+)/): the id line of the caption
idMatch(m) == IF "id" \in CaptionLines(m) THEN Some(m.user) ELSE Null

\* handlers.js:1241, 1250   caption.match(/🐦 @?([^\n]+)/): the rest of the
\* line "🐦 X: @<handle>", or "Unknown"
xUsernameOf(m) ==
  IF "x_handle" \in CaptionLines(m)
  THEN Some(<<"X", ":", " ", "@">> \o
            (IF m.handle = Null THEN <<"n","u","l","l">> ELSE m.handle[1]))
  ELSE Some(Unknown)

Yes == <<"y","e","s">>
No == <<"n","o">>

\* What the operator channel is answered with
ReplyInputs == {Yes, <<" ","N","o">>, <<"o","k">>}

\* handlers.js:1231-1290   the operator-channel branch of bot.on("message"): a
\* answers message m of the channel with text (the broadcast branch of
\* handlers.js:1196 comes first and takes the operator's text while a
\* broadcast is being composed)
AdminReply(a, m, text, dbOk, sendOk) ==
  LET reply == trim(toLowerCase(text)) IN
  /\ m \in adminGroup
  /\ ~Broadcasting(a)
  /\ IF a # ADMIN_ID
     THEN /\ lastEvent' = Event("admin_reply", a, "none")
          /\ UNCHANGED dbUsers
     ELSE IF reply # Yes /\ reply # No
     THEN /\ lastEvent' = Event("admin_reply", a, "yes_or_no_only")
          /\ UNCHANGED dbUsers
     ELSE IF idMatch(m) = Null
     THEN /\ lastEvent' = Event("admin_reply", a, "no_user_id")
          /\ UNCHANGED dbUsers
     ELSE LET targetId == idMatch(m)[1] IN
          /\ dbUsers' = IF reply = Yes
                        THEN addUser(dbUsers, targetId, "Unknown", xUsernameOf(m), dbOk)
                        ELSE dbUsers
          /\ lastEvent' = Event("admin_reply", targetId,
                                IF ~sendOk THEN "none"
                                ELSE IF reply = Yes THEN "verified" ELSE "rejected")
  /\ UNCHANGED <<userSessions, heap, adminGroup>>
  /\ NoTaskStep
  /\ NoLimiterStep

\* ------------------------------------------------------ the follow network
MAX_WARNINGS == 3

\* part_001:194-199   Database.addWarning: the cache after the call
addWarning(users, telegramId) ==
  IF users[telegramId] # Null
  THEN [users EXCEPT ![telegramId] = Some([@[1] EXCEPT !.warnings_count = @ + 1])]
  ELSE users

\* part_001:194-199: the function has no return statement; its promise
\* resolves to undefined
addWarningResult(users, telegramId) == Null

\* handlers.js:280   `Warning ${warnings}/${MAX_WARNINGS}`; warnings is
\* undefined or a number
WarningLine(warnings) ==
  IF warnings = Null THEN "Warning undefined/3"
  ELSE <<"Warning 0/3", "Warning 1/3", "Warning 2/3", "Warning 3/3",
         "Warning 4/3", "Warning 5/3">>[warnings[1] + 1]

\* handlers.js:285   warnings >= MAX_WARNINGS: undefined becomes NaN, and a
\* comparison with NaN is false
AtMaxWarnings(warnings) == warnings # Null /\ warnings[1] >= MAX_WARNINGS

\* handlers.js:287: the notice 'User Hit Max Warnings' for the operators
MaxWarningsMsg(followerId, follower) ==
  [kind |-> "max_warnings", user |-> followerId, photoNo |-> 0,
   handle |-> follower.x_username, reason |-> <<>>, followState |-> "",
   error |-> "", buttons |-> FALSE]

\* handlers.js:262-301   bot.action(/^deny_follow_(\d+)$/): user by answers
\* Nope to the follow that followerId has claimed.  dbOk: the update of the
\* database succeeds; sendOk: the follower can be reached; notifyOk: the
\* operator channel can be reached.
DenyFollow(by, followerId, dbOk, sendOk, notifyOk) ==
  /\ IF dbUsers[followerId] = Null
     THEN /\ lastEvent' = Event("deny_follow", by, "user_gone")
          /\ UNCHANGED <<dbUsers, adminGroup>>
     ELSE IF ~dbOk
     THEN /\ lastEvent' = Event("deny_follow", by, "error_denying")
          /\ UNCHANGED <<dbUsers, adminGroup>>
     ELSE LET warnings == addWarningResult(dbUsers, followerId) IN
          /\ dbUsers' = addWarning(dbUsers, followerId)
          /\ adminGroup' =
               IF AtMaxWarnings(warnings) /\ notifyOk
               THEN adminGroup \cup {MaxWarningsMsg(followerId, dbUsers[followerId][1])}
               ELSE adminGroup
          /\ lastEvent' = Event("deny_follow", followerId,
                                IF sendOk THEN WarningLine(warnings) ELSE "none")
  /\ UNCHANGED <<userSessions, heap>>
  /\ NoTaskStep
  /\ NoLimiterStep

\* ------------------------------------------------------- src/src/utils.js
RATE_LIMIT_WINDOW == 60000
MAX_REQUESTS_PER_WINDOW == 5

\* The clock is read every half window
Quantum == RATE_LIMIT_WINDOW \div 2

\* utils.js:36   now > userLimit.resetTime
WindowOver(userLimit, time) == time > userLimit.resetTime

\* A variant of utils.js:41 that lets the count pass the maximum
AtLimitAbove(userLimit) == userLimit.count > MAX_REQUESTS_PER_WINDOW

\* utils.js:41   userLimit.count >= MAX_REQUESTS_PER_WINDOW
AtLimit(userLimit) == userLimit.count >= MAX_REQUESTS_PER_WINDOW

\* utils.js:31-34: the stored object, or a new one that is not stored yet
UserLimitOf(u) ==
  IF userRateLimits[u] # Null THEN userRateLimits[u][1]
  ELSE [count |-> 0, resetTime |-> now + RATE_LIMIT_WINDOW]

\* utils.js:36-39: the object after the test of the window; a stored object
\* is changed in place
AfterReset(userLimit) ==
  IF WindowOver(userLimit, now)
  THEN [count |-> 0, resetTime |-> now + RATE_LIMIT_WINDOW]
  ELSE userLimit

\* utils.js:29-48 checkRateLimit(userId), called by the middleware of
\* part_002:26-31 for an update of user u: the handlers run next, or the user
\* is told to slow down
CheckRateLimit(u) ==
  LET stored == userRateLimits[u] # Null
      over == WindowOver(UserLimitOf(u), now)
      userLimit == AfterReset(UserLimitOf(u))
  IN /\ IF AtLimit(userLimit)
        THEN /\ userRateLimits' = IF stored
                                   THEN [userRateLimits EXCEPT ![u] = Some(userLimit)]
                                   ELSE userRateLimits
             /\ admitted' = IF over THEN [admitted EXCEPT ![u] = 0] ELSE admitted
             /\ lastEvent' = Event("rate_limit", u, "slow_down")
        ELSE /\ userRateLimits' =
                  [userRateLimits EXCEPT ![u] = Some([userLimit EXCEPT !.count = @ + 1])]
             /\ admitted' = [admitted EXCEPT ![u] = (IF over THEN 0 ELSE @) + 1]
             /\ lastEvent' = Event("rate_limit", u, "next")
     /\ UNCHANGED <<userSessions, heap, tasks, tesseractWorker, createCalls,
                    dbUsers, adminGroup, photos, now>>

\* Half a window passes
Tick ==
  /\ now + Quantum <= MaxTicks * Quantum
  /\ now' = now + Quantum
  /\ lastEvent' = Event("tick", 0, "none")
  /\ UNCHANGED <<userSessions, heap, tasks, tesseractWorker, createCalls,
                 dbUsers, adminGroup, photos, userRateLimits, admitted>>

\* The rate limiter alone: updates of the users arrive while time passes
NextRateLimit ==
  \/ Tick
  \/ \E u \in Users : CheckRateLimit(u)

SpecRateLimit == Init /\ [][NextRateLimit]_allVars

\* The operator does not apply for verification: the operator's texts are the
\* broadcast texts, and acknowledgments and photos come from the other users.
Applicants == Users \ {ADMIN_ID}

Next ==
  \/ Sweep
  \/ \E u \in Users : Start(u)
  \/ \E u \in Users : Cancel(u)
  \/ \E u \in Applicants : IHaveFollowed(u)
  \/ \E u \in Users, text \in TextInputs :
        (u \in Applicants \/ Broadcasting(u)) /\ TextMessage(u, text)
  \/ \E u \in Applicants : photos < MaxPhotos /\ PhotoMessage(u)
  \/ \E t \in Tasks, ok \in BOOLEAN : PreambleDone(t, ok)
  \/ \E t \in Tasks, ok \in BOOLEAN, e \in ErrorMessages : CreateWorkerDone(t, ok, e)
  \/ \E t \in Tasks, data \in OcrResults : RecognizeReturn(t, data)
  \/ \E t \in Tasks, e \in ErrorMessages : RecognizeThrow(t, e)
  \/ \E t \in Tasks, ok \in BOOLEAN : AddUserDone(t, ok)
  \/ \E t \in Tasks, outcome \in SendOutcomes : AcceptSendsDone(t, outcome)
  \/ \E t \in Tasks, outcome \in SendOutcomes : ReviewSendsDone(t, outcome)
  \/ \E t \in Tasks, outcome \in SendOutcomes : CatchSendsDone(t, outcome)
  \/ \E a \in Users, m \in adminGroup, dbOk \in BOOLEAN, sendOk \in BOOLEAN :
        VerifyButton(a, m, dbOk, sendOk)
  \/ \E a \in Users, m \in adminGroup, sendOk \in BOOLEAN : DeclineButton(a, m, sendOk)
  \/ \E a \in Users, h \in VerifyInputs, dbOk \in BOOLEAN, sendOk \in BOOLEAN :
        VerifyCommand(a, h, dbOk, sendOk)
  \/ \E a \in Users : AdminBroadcast(a)

Spec == Init /\ [][Next]_vars

\* The screenshot handlers alone, as many at once as there are task slots: the
\* applicants walk to the screenshot step and send photos, no timer fires and
\* the operator is away.
NextHandlers ==
  \/ \E u \in Applicants : Start(u)
  \/ \E u \in Applicants, text \in TextInputs : TextMessage(u, text)
  \/ \E u \in Applicants : IHaveFollowed(u)
  \/ \E u \in Applicants : photos < MaxTasks /\ PhotoMessage(u)
  \/ \E t \in Tasks, ok \in BOOLEAN : PreambleDone(t, ok)
  \/ \E t \in Tasks, ok \in BOOLEAN, e \in ErrorMessages : CreateWorkerDone(t, ok, e)
  \/ \E t \in Tasks, data \in OcrResults : RecognizeReturn(t, data)
  \/ \E t \in Tasks, e \in ErrorMessages : RecognizeThrow(t, e)
  \/ \E t \in Tasks, ok \in BOOLEAN : AddUserDone(t, ok)
  \/ \E t \in Tasks, outcome \in SendOutcomes : AcceptSendsDone(t, outcome)
  \/ \E t \in Tasks, outcome \in SendOutcomes : ReviewSendsDone(t, outcome)
  \/ \E t \in Tasks, outcome \in SendOutcomes : CatchSendsDone(t, outcome)

SpecHandlers == Init /\ [][NextHandlers]_vars

\* The classifier at work: one submission is handled, and the recognition
\* returns any of the results of LayoutInputs; no timer fires and the operator
\* is away.
NextClassifier ==
  \/ \E u \in Applicants : Start(u)
  \/ \E u \in Applicants, text \in TextInputs : TextMessage(u, text)
  \/ \E u \in Applicants : IHaveFollowed(u)
  \/ \E u \in Applicants : photos < MaxPhotos /\ PhotoMessage(u)
  \/ \E t \in Tasks, ok \in BOOLEAN : PreambleDone(t, ok)
  \/ \E t \in Tasks, ok \in BOOLEAN, e \in ErrorMessages : CreateWorkerDone(t, ok, e)
  \/ \E t \in Tasks, data \in LayoutInputs : RecognizeReturn(t, data)
  \/ \E t \in Tasks, ok \in BOOLEAN : AddUserDone(t, ok)
  \/ \E t \in Tasks, outcome \in SendOutcomes : AcceptSendsDone(t, outcome)
  \/ \E t \in Tasks, outcome \in SendOutcomes : ReviewSendsDone(t, outcome)
  \/ \E t \in Tasks, outcome \in SendOutcomes : CatchSendsDone(t, outcome)

SpecClassifier == Init /\ [][NextClassifier]_vars

\* The same with the results of TextResults, for the normalization of the
\* text of a word
NextNormalize ==
  \/ \E u \in Applicants : Start(u)
  \/ \E u \in Applicants, text \in TextInputs : TextMessage(u, text)
  \/ \E u \in Applicants : IHaveFollowed(u)
  \/ \E u \in Applicants : photos < MaxPhotos /\ PhotoMessage(u)
  \/ \E t \in Tasks, ok \in BOOLEAN : PreambleDone(t, ok)
  \/ \E t \in Tasks, ok \in BOOLEAN, e \in ErrorMessages : CreateWorkerDone(t, ok, e)
  \/ \E t \in Tasks, data \in TextResults : RecognizeReturn(t, data)
  \/ \E t \in Tasks, outcome \in SendOutcomes : ReviewSendsDone(t, outcome)
  \/ \E t \in Tasks, outcome \in SendOutcomes : CatchSendsDone(t, outcome)

SpecNormalize == Init /\ [][NextNormalize]_vars

\* The review of a submission: the applicants walk through the flow, one
\* submission is handled, and the operator presses the buttons of the requests
\* and answers the messages of the operator channel; no timer fires.
NextReview ==
  \/ \E u \in Applicants : Start(u)
  \/ \E u \in Applicants, text \in TextInputs : TextMessage(u, text)
  \/ \E u \in Applicants : IHaveFollowed(u)
  \/ \E u \in Applicants : photos < MaxPhotos /\ PhotoMessage(u)
  \/ \E t \in Tasks, ok \in BOOLEAN : PreambleDone(t, ok)
  \/ \E t \in Tasks, ok \in BOOLEAN, e \in ErrorMessages : CreateWorkerDone(t, ok, e)
  \/ \E t \in Tasks, data \in OcrResults : RecognizeReturn(t, data)
  \/ \E t \in Tasks, e \in ErrorMessages : RecognizeThrow(t, e)
  \/ \E t \in Tasks, ok \in BOOLEAN : AddUserDone(t, ok)
  \/ \E t \in Tasks, outcome \in SendOutcomes : AcceptSendsDone(t, outcome)
  \/ \E t \in Tasks, outcome \in SendOutcomes : ReviewSendsDone(t, outcome)
  \/ \E t \in Tasks, outcome \in SendOutcomes : CatchSendsDone(t, outcome)
  \/ \E a \in Users, m \in adminGroup, dbOk \in BOOLEAN, sendOk \in BOOLEAN :
        VerifyButton(a, m, dbOk, sendOk)
  \/ \E a \in Users, m \in adminGroup, sendOk \in BOOLEAN : DeclineButton(a, m, sendOk)
  \/ \E a \in Users, m \in adminGroup, text \in ReplyInputs,
        dbOk \in BOOLEAN, sendOk \in BOOLEAN : AdminReply(a, m, text, dbOk, sendOk)

SpecReview == Init /\ [][NextReview]_vars

\* The same with the /verify command: every way of resolving a pending case,
\* tried by the operator and by the other users
NextResolve ==
  \/ \E u \in Applicants : Start(u)
  \/ \E u \in Applicants, text \in TextInputs : TextMessage(u, text)
  \/ \E u \in Applicants : IHaveFollowed(u)
  \/ \E u \in Applicants : photos < MaxPhotos /\ PhotoMessage(u)
  \/ \E t \in Tasks, ok \in BOOLEAN : PreambleDone(t, ok)
  \/ \E t \in Tasks, ok \in BOOLEAN, e \in ErrorMessages : CreateWorkerDone(t, ok, e)
  \/ \E t \in Tasks, data \in OcrResults : RecognizeReturn(t, data)
  \/ \E t \in Tasks, e \in ErrorMessages : RecognizeThrow(t, e)
  \/ \E t \in Tasks, ok \in BOOLEAN : AddUserDone(t, ok)
  \/ \E t \in Tasks, outcome \in SendOutcomes : AcceptSendsDone(t, outcome)
  \/ \E t \in Tasks, outcome \in SendOutcomes : ReviewSendsDone(t, outcome)
  \/ \E t \in Tasks, outcome \in SendOutcomes : CatchSendsDone(t, outcome)
  \/ \E a \in Users, m \in adminGroup, dbOk \in BOOLEAN, sendOk \in BOOLEAN :
        VerifyButton(a, m, dbOk, sendOk)
  \/ \E a \in Users, m \in adminGroup, sendOk \in BOOLEAN : DeclineButton(a, m, sendOk)
  \/ \E a \in Users, m \in adminGroup, text \in ReplyInputs,
        dbOk \in BOOLEAN, sendOk \in BOOLEAN : AdminReply(a, m, text, dbOk, sendOk)
  \/ \E a \in Users, h \in VerifyInputs, dbOk \in BOOLEAN, sendOk \in BOOLEAN :
        VerifyCommand(a, h, dbOk, sendOk)

SpecResolve == Init /\ [][NextResolve]_vars

\* The warnings of the follow network: the applicants get verified, and the
\* users they claim to follow deny it, MaxDenials times at most for each
NextWarnings ==
  \/ \E u \in Applicants : Start(u)
  \/ \E u \in Applicants, text \in TextInputs : TextMessage(u, text)
  \/ \E u \in Applicants : IHaveFollowed(u)
  \/ \E u \in Applicants : photos < MaxPhotos /\ PhotoMessage(u)
  \/ \E t \in Tasks, ok \in BOOLEAN : PreambleDone(t, ok)
  \/ \E t \in Tasks, ok \in BOOLEAN, e \in ErrorMessages : CreateWorkerDone(t, ok, e)
  \/ \E t \in Tasks, data \in OcrResults : RecognizeReturn(t, data)
  \/ \E t \in Tasks, ok \in BOOLEAN : AddUserDone(t, ok)
  \/ \E t \in Tasks, outcome \in SendOutcomes : AcceptSendsDone(t, outcome)
  \/ \E t \in Tasks, outcome \in SendOutcomes : ReviewSendsDone(t, outcome)
  \/ \E t \in Tasks, outcome \in SendOutcomes : CatchSendsDone(t, outcome)
  \/ \E by \in Users, followerId \in Users, dbOk \in BOOLEAN,
        sendOk \in BOOLEAN, notifyOk \in BOOLEAN :
        /\ dbUsers[followerId] # Null => dbUsers[followerId][1].warnings_count < MaxDenials
        /\ DenyFollow(by, followerId, dbOk, sendOk, notifyOk)

SpecWarnings == Init /\ [][NextWarnings]_vars

\* The username step alone: one user starts, cancels, and sends texts and
\* photos while the sweep timer runs; the button is never pressed.
FirstApplicant == CHOOSE u \in Applicants : \A v \in Applicants : u <= v

NextUsername ==
  \/ Sweep
  \/ Start(FirstApplicant)
  \/ Cancel(FirstApplicant)
  \/ \E text \in HandleTexts : TextMessage(FirstApplicant, text)
  \/ PhotoMessage(FirstApplicant)

SpecUsername == Init /\ [][NextUsername]_vars

\* Every step of the program that is enabled is taken in the end: the timer
\* fires, and an await on Telegram, on the database or on createWorker settles.
\* Nothing bounds the time worker.recognize takes (handlers.js:1358 passes no
\* timeout), so no fairness is stated for its return.
Fairness ==
  /\ WF_vars(Sweep)
  /\ \A t \in Tasks :
       /\ WF_vars(\E ok \in BOOLEAN : PreambleDone(t, ok))
       /\ WF_vars(\E ok \in BOOLEAN, e \in ErrorMessages : CreateWorkerDone(t, ok, e))
       /\ WF_vars(\E ok \in BOOLEAN : AddUserDone(t, ok))
       /\ WF_vars(\E outcome \in SendOutcomes : AcceptSendsDone(t, outcome))
       /\ WF_vars(\E outcome \in SendOutcomes : ReviewSendsDone(t, outcome))
       /\ WF_vars(\E outcome \in SendOutcomes : CatchSendsDone(t, outcome))

FairSpec == Init /\ [][Next]_vars /\ Fairness

\* The whole program with the one assumption that the interval timer of
\* handlers.js:66 keeps firing; nothing is assumed about the handlers.
TimerSpec == Init /\ [][Next]_vars /\ WF_vars(Sweep)

\* ---------------------------------------------------------------- properties
\* C1: a screenshot whose recognition call has returned is auto-accepted (the
\* handler goes on to db.addUser) if and only if the layout verdict is valid,
\* its followState is "following" and the recognized text holds the owner's
\* handle; in every other case it is escalated: the step is set to done and the
\* handler goes on to the operator's review request.
C1_AutoAcceptIff ==
  [][\A t \in Tasks :
       /\ tasks[t].pc = "recognize" /\ tasks'[t].decision # "none" =>
            LET tk == tasks'[t]
                wanted == /\ tk.verdict.isValid
                          /\ tk.verdict.followState = "following"
                          /\ tk.hasOwner
            IN /\ tk.decision = "auto_accept" <=> wanted
               /\ wanted => tk.pc = "addUser"
               /\ ~wanted => /\ tk.decision = "escalate"
                              /\ tk.pc = "review_sends"
                              /\ heap'[tk.ref].step = "done"
       /\ tasks[t].pc \in {"addUser", "accept_sends"} => tasks[t].decision = "auto_accept"
       /\ tasks[t].pc = "review_sends" => tasks[t].decision = "escalate"
       /\ tasks[t].recorded => tasks[t].decision = "auto_accept"]_vars

\* An accepted screenshot has been recorded, and an escalated one is on its way
\* to the operator.
C1_Witness ==
  \E t \in Tasks :
    /\ tasks[t].pc = "accept_sends" /\ tasks[t].recorded
    /\ dbUsers[tasks[t].user] # Null
    /\ tasks[t].verdict.isValid /\ tasks[t].hasOwner

\* C2: every session in the map whose step is screenshot or done has a
\* non-empty claimed handle.
C2_HandleBeforeScreenshot ==
  \A u \in Users :
    HasSession(u) /\ Session(u).step \in {"screenshot", "done"}
      => Truthy(Session(u).username)

\* A session of the map has reached done after a sweep, a restart and a review.
C2_Witness ==
  \E u \in Users :
    /\ HasSession(u) /\ Session(u).step = "done" /\ Truthy(Session(u).username)
    /\ \E m \in adminGroup : m.user = u /\ m.kind = "review"

\* The handler of task t returns or throws in this step
Finishes(t) == tasks[t].pc # "idle" /\ tasks'[t].pc = "idle"

\* C3: when the handling of a screenshot finishes, the user's session is absent
\* from the map if the decision was auto-accept and the user was recorded, and
\* the user's session in the map has step done if the decision was an
\* escalation (a failed recognition included).
C3_SessionAfterDecision ==
  [][\A t \in Tasks :
       Finishes(t) =>
         LET tk == tasks[t]
             u == tk.user
         IN /\ tk.decision = "auto_accept" /\ tk.recorded => userSessions'[u] = Absent
            /\ tk.decision = "escalate" \/ tk.caught = "recognition" =>
                 /\ userSessions'[u] # Absent
                 /\ heap'[userSessions'[u]].step = "done"]_vars

\* C4: createWorker is called at most once while an initialization is pending
\* or has succeeded.
C4_SingleInitialization == createCalls <= 1

\* The recognition call of task t (getWorker, then recognize) is pending
Pending(t) == tasks[t].pc \in {"createWorker", "recognize"}

\* C5: a run of the sweep does not take out of the map the session of a user
\* whose recognition call is pending.
C5_SweepKeepsInFlight ==
  [][\A t \in Tasks :
       /\ Pending(t)
       /\ userSessions[tasks[t].user] = tasks[t].ref
       /\ lastEvent' = Event("sweep", 0, "none")
       /\ tasks' = tasks
       => userSessions'[tasks[t].user] = tasks[t].ref]_vars

\* C6: when getWorker or recognize throws, the error is caught and the session's
\* step becomes done; when the handler finishes, the operator channel holds the
\* screenshot with the error message and the accept/reject buttons, and the
\* user has not been recorded by the handler.
C6_RecognitionErrorEscalates ==
  [][\A t \in Tasks :
       /\ Pending(t) /\ tasks'[t].caught = "recognition" =>
            /\ tasks'[t].pc = "catch_sends"
            /\ heap'[tasks[t].ref].step = "done"
       /\ Finishes(t) /\ tasks[t].caught = "recognition" =>
            /\ tasks[t].decision # "auto_accept" /\ ~tasks[t].recorded
            /\ \E m \in adminGroup' :
                 /\ m.kind = "ocr_error" /\ m.user = tasks[t].user
                 /\ m.photoNo = tasks[t].photoNo
                 /\ m.error = tasks[t].error /\ m.buttons]_vars

\* C7: a screenshot whose recognition call is pending is decided in the end, as
\* an auto-accept or as an escalation.
C7_EventuallyDecided ==
  \A t \in Tasks :
    Pending(t) ~> tasks[t].pc \in {"addUser", "review_sends", "catch_sends"}

\* C8: right after /cancel has been handled the map has no entry for the user.
C8_CancelDeletes == lastEvent.op = "cancel" => ~HasSession(lastEvent.user)

\* The updates a user sends to the bot in the private chat
InboundOps == {"start", "cancel", "text", "photo", "i_have_followed"}

\* This step handles an update of InboundOps sent by u, who has no session
ContactWithoutSession(u) ==
  ~HasSession(u) /\ lastEvent'.user = u /\ lastEvent'.op \in InboundOps

\* After this step u has a fresh session in step username
FreshSession(u) ==
  /\ userSessions'[u] # Absent
  /\ heap'[userSessions'[u]].step = "username"
  /\ heap'[userSessions'[u]].username = Null
  /\ heap'[userSessions'[u]].attempts = 0

\* C9 as stated: any inbound message of a user with no session creates a session
\* for that user in step username.
C9_AnyContactCreates ==
  [][\A u \in Users : ContactWithoutSession(u) => FreshSession(u)]_vars

\* C9: for a user with no session, /cancel, and /start from a user who is neither
\* the admin nor verified, create a session in step username; every other
\* inbound message leaves the user without a session.
C9_StartCreates ==
  [][\A u \in Users :
       ContactWithoutSession(u) =>
         IF \/ lastEvent'.op = "cancel"
            \/ /\ lastEvent'.op = "start"
               /\ u # ADMIN_ID
               /\ ~(dbUsers[u] # Null /\ dbUsers[u][1].verified)
         THEN FreshSession(u)
         ELSE userSessions'[u] = Absent]_vars

\* /start has given a user a session in step username.
C9_Witness ==
  /\ lastEvent.op = "start" /\ lastEvent.reply = "welcome"
  /\ HasSession(lastEvent.user)
  /\ Session(lastEvent.user).step = "username"
  /\ Session(lastEvent.user).username = Null

StepRank(step) ==
  IF step = "username" THEN 1
  ELSE IF step = "follow_check" THEN 2
  ELSE IF step = "screenshot" THEN 3
  ELSE IF step = "done" THEN 4
  ELSE 0

\* This step handles an update that creates a session for u with resetSession
Recreates(u) ==
  lastEvent'.user = u /\ lastEvent'.op \in {"start", "cancel", "admin_broadcast"}

\* C10: the step of a session that stays in the map never moves back, and it
\* becomes screenshot only from follow_check.
C10_StepsOnlyForward ==
  [][\A u \in Users :
       /\ userSessions[u] # Absent /\ userSessions'[u] = userSessions[u]
       /\ ~Recreates(u)
       /\ heap[userSessions[u]].step \in Steps
       => LET before == heap[userSessions[u]].step
              after == heap'[userSessions[u]].step
          IN /\ StepRank(after) >= StepRank(before)
             /\ after = "screenshot" /\ before # "screenshot"
                  => before = "follow_check"]_vars

\* A text of 1 to 15 characters, each a letter, a digit or an underscore
ValidHandle(text) ==
  /\ Len(text) >= 1 /\ Len(text) <= 15
  /\ \A i \in 1..Len(text) :
       text[i] \in Range(UpperChars) \cup Range(LowerChars) \cup Digits \cup {"_"}

\* u has a session in step username
InUsernameStep(u) == HasSession(u) /\ Session(u).step = "username"

\* C11: for a session in step username, a text of 1 to 15 letters, digits and
\* underscores is stored unchanged as the claimed handle and the step becomes
\* follow_check.
C11_ValidHandleStored ==
  [][\A u \in Users, text \in HandleTexts :
       InUsernameStep(u) /\ ValidHandle(text) /\ TextMessage(u, text) =>
         /\ userSessions'[u] = userSessions[u]
         /\ heap'[userSessions[u]].username = Some(text)
         /\ heap'[userSessions[u]].step = "follow_check"
         /\ lastEvent'.reply = "saved"]_vars

\* The handle of 15 characters has been stored.
C11_Witness ==
  \E u \in Users :
    /\ HasSession(u) /\ Session(u).step = "follow_check"
    /\ Session(u).username = Some(LongestHandle)
    /\ lastEvent = Event("text", u, "saved")

\* The replies that report a refused input in the username step
UsernameErrors == {"bad_length", "bad_chars", "send_text_only"}

\* This step leaves the map and every session as they were and reports an error
RefusedUnchanged ==
  /\ userSessions' = userSessions /\ heap' = heap
  /\ lastEvent'.reply \in UsernameErrors

\* C12 as stated: for a session in step username, a text that is not 1 to 15
\* letters, digits and underscores, and an input that is no text, leave the
\* session unchanged and an error is reported.
C12_InvalidInputRefused ==
  [][\A u \in Users :
       /\ \A text \in HandleTexts :
            InUsernameStep(u) /\ ~ValidHandle(text) /\ TextMessage(u, text)
              => RefusedUnchanged
       /\ InUsernameStep(u) /\ PhotoMessage(u) => RefusedUnchanged]_vars

\* The text without surrounding whitespace and without one leading "@"
Unmarked(text) ==
  LET t == trim(text) IN IF t # <<>> /\ t[1] = "@" THEN SubSeq(t, 2, Len(t)) ELSE t

\* C12: for a session in step username, a text that after trimming and removing
\* one leading "@" is not 1 to 15 letters, digits and underscores, and an input
\* that is no text, leave the session unchanged and an error is reported.
C12_InvalidAfterTrimRefused ==
  [][\A u \in Users :
       /\ \A text \in HandleTexts :
            InUsernameStep(u) /\ ~ValidHandle(Unmarked(text)) /\ TextMessage(u, text)
              => RefusedUnchanged
       /\ InUsernameStep(u) /\ PhotoMessage(u) => RefusedUnchanged]_vars

\* A text with a character that no handle has was refused: the session is
\* still in step username without a handle.
C12_Witness ==
  \E u \in Users :
    /\ lastEvent = Event("text", u, "bad_chars")
    /\ InUsernameStep(u) /\ Session(u).username = Null

\* This step is a run of the sweep
SweepRuns == lastEvent'.op = "sweep"

\* The age of u's session when the sweep that ends this step reads the clock
AgeAtSweep(u) == heap[userSessions[u]].age + 5 * 60 * 1000

\* C13: a run of the sweep deletes exactly the sessions that are more than 10
\* minutes old, whatever their step, and leaves every other session in the map
\* with its step, handle and attempts as they were.
C13_SweepDeletesExpired ==
  [][SweepRuns =>
       \A u \in Users :
         IF userSessions[u] = Absent THEN userSessions'[u] = Absent
         ELSE IF AgeAtSweep(u) > 10 * 60 * 1000 THEN userSessions'[u] = Absent
         ELSE /\ userSessions'[u] = userSessions[u]
              /\ heap'[userSessions[u]] =
                   [heap[userSessions[u]] EXCEPT !.age = AgeAtSweep(u)]]_vars

\* A run of the sweep has kept a session that is exactly 10 minutes old and
\* has a handle.
C13_Witness ==
  /\ lastEvent.op = "sweep"
  /\ \E u \in Users :
       /\ HasSession(u) /\ Session(u).age = 10 * 60 * 1000
       /\ Truthy(Session(u).username)

\* The last update handled has given u a new session with resetSession
JustRecreated(u) ==
  lastEvent.user = u /\ lastEvent.op \in {"start", "cancel", "admin_broadcast"}

\* C14: a session of the map is never older than 15 minutes, whatever the user
\* sends (a state shows the ages at the last run of the sweep, and a session
\* grows older by at most one timer period before the next run); and a
\* session is removed in the end unless it is created anew.
C14_SessionsBounded ==
  /\ [](\A u \in Users :
          HasSession(u) => Session(u).age + 5 * 60 * 1000 <= 15 * 60 * 1000)
  /\ \A u \in Users : HasSession(u) ~> (~HasSession(u) \/ JustRecreated(u))

\* A session that has been through the whole flow is 10 minutes old after a
\* run of the sweep: the next run removes it.
C14_Witness ==
  /\ lastEvent.op = "sweep"
  /\ \E u \in Users :
       /\ HasSession(u) /\ Session(u).age = 10 * 60 * 1000
       /\ Session(u).step = "done"

\* C15: when the operator resolves the pending request m of a user, by the
\* Verify or the Reject button (and the user is told) or by answering "yes" or
\* "no" to it in the operator channel, that user has no session in the map
\* afterwards.
C15_ResolutionDeletes ==
  [][\A m \in adminGroup :
       (/\ m.buttons
        /\ \/ \E dbOk \in BOOLEAN : VerifyButton(ADMIN_ID, m, dbOk, TRUE)
           \/ DeclineButton(ADMIN_ID, m, TRUE)
           \/ \E text \in {Yes, No}, dbOk \in BOOLEAN, sendOk \in BOOLEAN :
                 AdminReply(ADMIN_ID, m, text, dbOk, sendOk))
       => userSessions'[m.user] = Absent]_vars

\* C16, as stated: the step of every session of the map is one of username,
\* follow_check, screenshot, done.
C16_FourSteps ==
  \A u \in Users : HasSession(u) => Session(u).step \in Steps

\* C16, amended: the step of every session of the map is one of the four, or
\* it is broadcast_msg and the session is the operator's own.
C16_FourStepsOrBroadcast ==
  \A u \in Users :
    HasSession(u) =>
      \/ Session(u).step \in {"username", "follow_check", "screenshot", "done"}
      \/ u = ADMIN_ID /\ Session(u).step = "broadcast_msg"

\* The operator composes a broadcast while an applicant waits for the review.
C16_Witness ==
  /\ HasSession(ADMIN_ID) /\ Session(ADMIN_ID).step = "broadcast_msg"
  /\ \E u \in Applicants : HasSession(u) /\ Session(u).step = "done"

\* C17: once auto-accept has recorded the user of a submission as verified, no
\* step changes that while the handler runs on: the user stays recorded as
\* verified, the session the handler holds is not set to done, and no request
\* with the Verify and Reject buttons for that user reaches the operator.
C17_SendFailureKeepsDecision ==
  [][\A t \in Tasks :
       tasks[t].pc \in {"accept_sends", "catch_sends"} /\ tasks[t].recorded =>
         /\ dbUsers'[tasks[t].user] # Null /\ dbUsers'[tasks[t].user][1].verified
         /\ heap[tasks[t].ref].step # "done" => heap'[tasks[t].ref].step # "done"
         /\ \A m \in adminGroup' \ adminGroup :
              ~(m.buttons /\ m.user = tasks[t].user)]_vars

\* The owner note of a review request, for a submission whose recognized text
\* holds the owner's handle or not
OwnerNote(hasOwner) == IF hasOwner THEN <<>> ELSE <<" | Owner username not found">>

\* The review request that the handler of task t posts in this step
PostsReview(t, m) ==
  /\ m \in adminGroup' \ adminGroup
  /\ m.kind = "review" /\ m.user = tasks[t].user /\ m.photoNo = tasks[t].photoNo

\* C18, as stated: a review request posted for an escalated submission carries
\* the reason of the classifier's verdict, followed by the owner note exactly
\* when the recognized text lacks the owner's handle, and the verdict's
\* followState.
C18_EscalationCarriesVerdict ==
  [][\A t \in Tasks : \A m \in adminGroup' :
       PostsReview(t, m) =>
         /\ m.reason = <<tasks[t].verdict.reason>> \o OwnerNote(tasks[t].hasOwner)
         /\ m.followState = tasks[t].verdict.followState]_vars

\* C18, amended: the request carries the verdict's reason, or in its place
\* the text "Detected 'Follow' button (Not Following)" when the verdict's
\* followState is not_following; the owner note and the followState are as
\* stated.
C18_EscalationCarriesReason ==
  [][\A t \in Tasks : \A m \in adminGroup' :
       PostsReview(t, m) =>
         /\ m.reason =
              <<IF tasks[t].verdict.followState = "not_following"
                THEN "Detected 'Follow' button (Not Following)"
                ELSE tasks[t].verdict.reason>> \o OwnerNote(tasks[t].hasOwner)
         /\ m.followState = tasks[t].verdict.followState]_vars

\* A review request with the owner note has been posted.
C18_Witness ==
  \E m \in adminGroup :
    /\ m.kind = "review" /\ m.buttons
    /\ m.reason = <<"Valid layout", " | Owner username not found">>
    /\ m.followState = "following"

\* The texts of the errors that the handlers catch
ErrorTexts == ErrorMessages \cup {SendError}

\* C19: no reply to the user is the text of an error, and the error message
\* thrown by the recognition (by createWorker or by worker.recognize) decides
\* nothing but the error text of the operator's request: the step that throws
\* message e answers nothing to the user and leaves a state that is the same
\* for every e but for the error the handler holds, and the step that reports
\* it answers the user with a text given by the delivery alone and posts a
\* request that is the same for every e but for its error text.
C19_ErrorTextOnlyToOperator ==
  /\ [](lastEvent.reply \notin ErrorTexts)
  /\ [][\A t \in Tasks, e \in ErrorMessages :
          (RecognizeThrow(t, e) \/ CreateWorkerDone(t, FALSE, e)) =>
            /\ lastEvent' = Event(lastEvent'.op, tasks[t].user, "none")
            /\ tasks'[t].error = e
            /\ [tasks'[t] EXCEPT !.error = ""] =
                 [tasks[t] EXCEPT !.pc = "catch_sends", !.caught = "recognition",
                                  !.error = ""]
            /\ userSessions' = userSessions /\ dbUsers' = dbUsers
            /\ adminGroup' = adminGroup
            /\ heap' = [heap EXCEPT ![tasks[t].ref].step = "done"]]_vars
  /\ [][\A t \in Tasks, outcome \in SendOutcomes :
          CatchSendsDone(t, outcome) /\ tasks[t].caught = "recognition" =>
            /\ lastEvent' = Event("catch_sends", tasks[t].user,
                                  IF outcome = "reply_failed" THEN "none"
                                  ELSE "error_checking")
            /\ {[m EXCEPT !.error = ""] : m \in adminGroup' \ adminGroup} =
                 IF outcome = "sent"
                 THEN {[kind |-> "ocr_error", user |-> tasks[t].user,
                        photoNo |-> tasks[t].photoNo,
                        handle |-> heap[tasks[t].ref].username, reason |-> <<>>,
                        followState |-> "", error |-> "", buttons |-> TRUE]}
                 ELSE {}
            /\ \A m \in adminGroup' \ adminGroup : m.error = tasks[t].error]_vars

\* The recognition has thrown: the operator's request holds the error
\* message, and the user has been told that the image could not be checked.
C19_Witness ==
  /\ lastEvent.op = "catch_sends" /\ lastEvent.reply = "error_checking"
  /\ \E m \in adminGroup :
       m.kind = "ocr_error" /\ m.user = lastEvent.user /\ m.error \in ErrorMessages

\* C20: for a result whose word list is empty or missing, and for a missing
\* result, the classifier returns isValid = FALSE, reason "No text found",
\* followState "unknown" and confidence 0, whatever the width and the height.
C20_NoWordsNoTextFound ==
  /\ \A w \in DimValues, h \in DimValues :
       validateProfileLayout(Null, w, h) =
         [isValid |-> FALSE, reason |-> "No text found",
          followState |-> "unknown", confidence |-> 0]
  /\ \A t \in Tasks :
       /\ tasks[t].data # Null
       /\ tasks[t].data[1].words = Null \/ tasks[t].data[1].words = Some(<<>>)
       => tasks[t].verdict =
            [isValid |-> FALSE, reason |-> "No text found",
             followState |-> "unknown", confidence |-> 0]

\* The recognition has returned a result without words, and the handler holds
\* the verdict on its way to the review request.
C20_Witness ==
  \E t \in Tasks :
    /\ tasks[t].pc = "review_sends"
    /\ tasks[t].verdict.reason = "No text found" /\ tasks[t].verdict.confidence = 0
    /\ ~tasks[t].hasOwner

\* ------------------------------------------------- properties of the classifier
\* The word list of a recognition result, empty when it is missing
WordsOf(data) == IF data.words = Null THEN <<>> ELSE data.words[1]

\* The four landmarks whose order is checked
Landmarks == {"displayName", "username", "joinedDate", "followingRow"}

\* Word qualifies for a slot: its normalized text has two characters or more,
\* its centre lies in the window of the slot, and it holds the keyword of the
\* slot if there is one.
QualifiesFor(slot, word, width, height) ==
  LET text == normalizeText(word.text)
      ny == word.bbox.y0 + word.bbox.y1
      nx == word.bbox.x0 + word.bbox.x1
      dy == 2 * height
      dx == 2 * width
  IN /\ Len(text) >= 2
     /\ CASE slot = "displayName" -> InDisplayNameWindow(ny, dy, nx, dx)
          [] slot = "username" -> InUsernameWindow(ny, dy, nx, dx)
          [] slot = "joinedDate" ->
               InJoinedWindow(ny, dy, nx, dx) /\ includes(text, kwJoined)
          [] slot = "followingRow" ->
               /\ InFollowingRowWindow(ny, dy)
               /\ includes(text, kwFollowing) \/ includes(text, kwFollowers)
          [] slot = "followButton" ->
               /\ InFollowButtonWindow(ny, dy, nx, dx)
               /\ includes(text, kwFollow)

\* The places in the word list of the words that qualify for a slot
Qualifying(slot, data) ==
  {i \in 1..Len(WordsOf(data)) :
     QualifiesFor(slot, WordsOf(data)[i], WidthOf(data), HeightOf(data))}

\* The landmarks for which the result holds a qualifying word
LandmarksOf(data) == {slot \in Landmarks : Qualifying(slot, data) # {}}

\* The results that the running handlers hold
Classified == {t \in Tasks : tasks[t].data # Null}
DataOf(t) == tasks[t].data[1]

\* C21, as stated: a result with fewer than two landmarks gets an invalid
\* verdict with confidence 20.
C21_FewLandmarks ==
  \A t \in Classified :
    Cardinality(LandmarksOf(DataOf(t))) < 2 =>
      ~tasks[t].verdict.isValid /\ tasks[t].verdict.confidence = 20

\* C21, amended: a result that holds words, with fewer than two landmarks
\* among them, gets the verdict invalid, "Not enough profile elements found",
\* unknown, 20 (a result without words gets confidence 0).
C21_FewLandmarksOfWords ==
  \A t \in Classified :
    WordsOf(DataOf(t)) # <<>> /\ Cardinality(LandmarksOf(DataOf(t))) < 2 =>
      tasks[t].verdict =
        [isValid |-> FALSE, reason |-> "Not enough profile elements found",
         followState |-> "unknown", confidence |-> 20]

\* The single word "hi" at relY 0.9 has been classified.
C21_Witness ==
  \E t \in Classified :
    /\ WordsOf(DataOf(t)) = <<Word(<<"h","i">>, 200, 1800)>>
    /\ WidthOf(DataOf(t)) = 1000 /\ HeightOf(DataOf(t)) = 2000
    /\ tasks[t].verdict.reason = "Not enough profile elements found"

\* The slots after the scan of the words of a result
ElementsOf(data) ==
  ScanWords(NoElements, WordsOf(data), WidthOf(data), HeightOf(data))

\* The present landmarks of a result in the order displayName, username,
\* joinedDate, followingRow; some landmark lies above the one before it
PresentOf(data) == OrderChecks(ElementsOf(data))
Descends(data) ==
  LET present == PresentOf(data)
  IN \E k \in 2..Len(present) : present[k].y < present[k - 1].y

\* C22: a result that holds words gets the verdict invalid, "Layout mismatch
\* (elements out of order)", unknown, 50 when some present landmark has a
\* smaller relY than the present landmark before it, whatever else was found;
\* and it does not get that reason when no landmark has (equal relY values are
\* in order).
C22_OutOfOrderMismatch ==
  \A t \in Classified :
    WordsOf(DataOf(t)) # <<>> =>
      IF Descends(DataOf(t))
      THEN tasks[t].verdict =
             [isValid |-> FALSE, reason |-> "Layout mismatch (elements out of order)",
              followState |-> "unknown", confidence |-> 50]
      ELSE tasks[t].verdict.reason # "Layout mismatch (elements out of order)"

\* A result with two strong landmarks and a button that says Following has
\* been refused for its order, and so has one with a single weak pair.
C22_Witness ==
  \E t \in Classified :
    /\ Descends(DataOf(t))
    /\ ElementsOf(DataOf(t)).followButton # <<>>
    /\ \A k \in 1..Len(PresentOf(DataOf(t))) : PresentOf(DataOf(t))[k].isStrong
    /\ tasks[t].verdict.confidence = 50

\* The strong landmarks of a result: joinedDate and followingRow, and username
\* when a word that qualifies for it starts with the handle mark
StrongOf(data) ==
  {slot \in LandmarksOf(data) \cap {"joinedDate", "followingRow"} : TRUE}
    \cup {slot \in {"username"} :
            \E i \in Qualifying("username", data) : IsHandle(WordsOf(data)[i].text)}

\* C23: a result whose landmarks are in order, with two or more of the four
\* landmarks, is invalid with confidence 40 exactly when none of them is strong
\* and there are fewer than three; otherwise it is valid, with confidence 95
\* when more than one is strong and 85 when not.  The follow button counts
\* for neither number.
C23_ValidityAndConfidence ==
  \A t \in Classified :
    LET foundCount == Cardinality(LandmarksOf(DataOf(t)))
        strongCount == Cardinality(StrongOf(DataOf(t)))
    IN /\ WordsOf(DataOf(t)) # <<>> /\ ~Descends(DataOf(t))
       /\ foundCount >= 2
       => /\ tasks[t].verdict.isValid = ~(strongCount = 0 /\ foundCount < 3)
          /\ tasks[t].verdict.confidence =
               IF strongCount = 0 /\ foundCount < 3 THEN 40
               ELSE IF strongCount > 1 THEN 95 ELSE 85

\* Two weak landmarks and a follow button: the verdict is invalid with
\* confidence 40, the button has not made a third landmark.
C23_Witness ==
  \E t \in Classified :
    /\ Cardinality(LandmarksOf(DataOf(t))) = 2 /\ StrongOf(DataOf(t)) = {}
    /\ Qualifying("followButton", DataOf(t)) # {}
    /\ ~tasks[t].verdict.isValid /\ tasks[t].verdict.confidence = 40

\* The centre of the box of word has relX in [0.60, 0.98] and relY in
\* [0.30, 0.60]: relX = (x0 + x1) / (2 * width), relY = (y0 + y1) / (2 * height)
InButtonBox(word, width, height) ==
  /\ 100 * (word.bbox.x0 + word.bbox.x1) >= 60 * 2 * width
  /\ 100 * (word.bbox.x0 + word.bbox.x1) <= 98 * 2 * width
  /\ 100 * (word.bbox.y0 + word.bbox.y1) >= 30 * 2 * height
  /\ 100 * (word.bbox.y0 + word.bbox.y1) <= 60 * 2 * height

\* C24: the followState of the verdict is unknown whenever no word of the
\* result lies in the follow-button window with a text that contains "follow".
C24_NoButtonUnknown ==
  \A t \in Classified :
    (\A i \in 1..Len(WordsOf(DataOf(t))) :
       ~(/\ InButtonBox(WordsOf(DataOf(t))[i], WidthOf(DataOf(t)), HeightOf(DataOf(t)))
         /\ includes(normalizeText(WordsOf(DataOf(t))[i].text), <<"f","o","l","l","o","w">>)))
    => tasks[t].verdict.followState = "unknown"

\* A valid layout whose followingRow says Following, with no word in the
\* button window: the followState is unknown.
C24_Witness ==
  \E t \in Classified :
    /\ \A i \in 1..Len(WordsOf(DataOf(t))) :
         ~InButtonBox(WordsOf(DataOf(t))[i], WidthOf(DataOf(t)), HeightOf(DataOf(t)))
    /\ \E i \in Qualifying("followingRow", DataOf(t)) :
         includes(normalizeText(WordsOf(DataOf(t))[i].text), kwFollowing)
    /\ tasks[t].verdict.isValid /\ tasks[t].verdict.followState = "unknown"

\* The result is the four words of Scenario A, or of Scenario B, with width
\* 1000 and height 2000
IsScenario(data, button) ==
  /\ WordsOf(data) =
       <<Word(<<"J","a","n","e"," ","D","o","e">>, 200, 600),
         Word(<<"@","j","a","n","e","d","o","e">>, 200, 500),
         Word(<<"J","o","i","n","e","d"," ","2","0","2","0">>, 200, 1000),
         Word(button, 850, 900)>>
  /\ WidthOf(data) = 1000 /\ HeightOf(data) = 2000

Mismatch ==
  [isValid |-> FALSE, reason |-> "Layout mismatch (elements out of order)",
   followState |-> "unknown", confidence |-> 50]

\* C25, as stated: the words of Scenario A get a valid verdict with followState
\* following and a confidence of 85 or more.
C25_ScenarioAValid ==
  \A t \in Classified :
    IsScenario(DataOf(t), <<"F","o","l","l","o","w","i","n","g">>) =>
      /\ tasks[t].verdict.isValid
      /\ tasks[t].verdict.followState = "following"
      /\ tasks[t].verdict.confidence >= 85

\* C25, amended: the words of Scenario A get the verdict invalid, "Layout
\* mismatch (elements out of order)", unknown, 50: the handle at relY 0.25
\* takes the username slot and lies above the name at relY 0.3.
C25_ScenarioAMismatch ==
  \A t \in Classified :
    IsScenario(DataOf(t), <<"F","o","l","l","o","w","i","n","g">>) =>
      tasks[t].verdict = Mismatch

\* The words of Scenario A have been classified.
C25_Witness ==
  \E t \in Classified :
    /\ IsScenario(DataOf(t), <<"F","o","l","l","o","w","i","n","g">>)
    /\ tasks[t].pc = "review_sends" /\ tasks[t].decision = "escalate"

\* C26, as stated: the words of Scenario B, where the button says Follow, get
\* followState not_following.
C26_ScenarioBNotFollowing ==
  \A t \in Classified :
    IsScenario(DataOf(t), <<"F","o","l","l","o","w">>) =>
      tasks[t].verdict.followState = "not_following"

\* C26, amended: the words of Scenario B get the verdict invalid, "Layout
\* mismatch (elements out of order)", unknown, 50, as those of Scenario A do.
C26_ScenarioBMismatch ==
  \A t \in Classified :
    IsScenario(DataOf(t), <<"F","o","l","l","o","w">>) =>
      tasks[t].verdict = Mismatch

\* The words of Scenario B have been classified.
C26_Witness ==
  \E t \in Classified :
    /\ IsScenario(DataOf(t), <<"F","o","l","l","o","w">>)
    /\ tasks[t].pc = "review_sends" /\ tasks[t].verdict.followState = "unknown"

\* The centre of the box of word lies on the left (relX < 0.6) at relY pct/100
LeftAt(word, pct, data) ==
  /\ 100 * (word.bbox.x0 + word.bbox.x1) < 60 * 2 * WidthOf(data)
  /\ 100 * (word.bbox.y0 + word.bbox.y1) = pct * 2 * HeightOf(data)

\* Scenario D: two words on the left, the first at relY 0.5 and the second at
\* relY 0.2
IsScenarioD(data) ==
  /\ Len(WordsOf(data)) = 2
  /\ LeftAt(WordsOf(data)[1], 50, data) /\ LeftAt(WordsOf(data)[2], 20, data)
  /\ \A i \in 1..2 : Len(normalizeText(WordsOf(data)[i].text)) >= 2

HandleMarked(word) == Head(word.text) \in {"@", "(c)"}

First(places) == CHOOSE i \in places : \A j \in places : i <= j

\* The place of the word that a write-once slot holds after the scan: the
\* first word that qualifies, or for username the first handle-marked one that
\* qualifies when the first that qualifies has no handle mark
KeptPlace(slot, data) ==
  LET places == Qualifying(slot, data)
      marked == {i \in places : HandleMarked(WordsOf(data)[i])}
  IN IF slot = "username" /\ marked # {} THEN First(marked) ELSE First(places)

\* C28: after the scan each of the five slots is empty when no word qualifies
\* for it, and otherwise holds the first word in input order that qualifies
\* (for username: the first handle-marked one, when there is one and the first
\* has no mark); a later word that qualifies does not take its place.
C28_SlotsWriteOnce ==
  \A t \in Classified :
    \A slot \in Landmarks \cup {"followButton"} :
      LET held == ElementsOf(DataOf(t))[slot]
      IN IF Qualifying(slot, DataOf(t)) = {} THEN held = <<>>
         ELSE LET word == WordsOf(DataOf(t))[KeptPlace(slot, DataOf(t))]
              IN /\ held # <<>>
                 /\ held[1].text = word.text
                 /\ held[1].y = word.bbox.y0 + word.bbox.y1

\* The text of the one word of a result of TextResults
TextOf(t) == WordsOf(DataOf(t))[1].text

\* C29: normalizeText gives a result for every text; normalizing the result
\* again changes nothing; the empty (or missing) text gives the empty string;
\* and the result holds no "0", "1", "|", "@", no uppercase letter, and no
\* whitespace at either end.
C29_NormalizeIdempotent ==
  \A t \in Classified :
    Len(WordsOf(DataOf(t))) = 1 =>
      LET once == normalizeText(TextOf(t))
      IN /\ once \in Seq(STRING)
         /\ normalizeText(once) = once
         /\ TextOf(t) = <<>> => once = <<>>
         /\ \A i \in 1..Len(once) :
              /\ once[i] \notin {"0", "1", "|", "@"}
              /\ once[i] \notin Range(UpperChars)
         /\ once # <<>> =>
              once[1] \notin {" ", "\n", "\t"} /\ once[Len(once)] \notin {" ", "\n", "\t"}

\* A text with a handle mark, a blank, a digit to rewrite and an uppercase
\* letter has been normalized to a shorter text.
C29_Witness ==
  \E t \in Classified :
    /\ TextOf(t) = <<"@", " ", "0">>
    /\ normalizeText(TextOf(t)) = <<"o">>
    /\ tasks[t].verdict.reason = "Not enough profile elements found"

\* The follow-button slot of a result after the scan, and the state that its
\* normalized text stands for
ButtonOf(data) == ElementsOf(data).followButton
ButtonSays(data) ==
  LET text == normalizeText(ButtonOf(data)[1].raw)
  IN IF includes(text, <<"f","o","l","l","o","w","i","n","g">>) THEN "following"
     ELSE IF includes(text, <<"f","o","l","l","o","w">>) THEN "not_following"
     ELSE "unknown"

\* C30: when the scan recorded a follow-button word, a valid verdict reports
\* following if the normalized text of that word contains "following" and
\* not_following if it contains "follow" but not "following"; a verdict
\* reports unknown when no follow-button word was recorded, whatever the
\* followingRow landmark holds, so that the reported state comes from the
\* follow-button slot only.
C30_StateFromButton ==
  \A t \in Classified :
    /\ ButtonOf(DataOf(t)) # <<>> /\ tasks[t].verdict.isValid
         => /\ tasks[t].verdict.followState = ButtonSays(DataOf(t))
            /\ tasks[t].verdict.followState \in {"following", "not_following"}
    /\ ButtonOf(DataOf(t)) = <<>> => tasks[t].verdict.followState = "unknown"
    /\ tasks[t].verdict.followState # "unknown"
         => ButtonOf(DataOf(t)) # <<>> /\ tasks[t].verdict.isValid

\* A valid layout whose followingRow says Following and whose button says
\* Follow: the verdict reports not_following.
C30_Witness ==
  \E t \in Classified :
    /\ tasks[t].verdict.isValid
    /\ ButtonOf(DataOf(t)) # <<>>
    /\ ButtonOf(DataOf(t))[1].raw = wFollow
    /\ \E i \in Qualifying("followingRow", DataOf(t)) :
         includes(normalizeText(WordsOf(DataOf(t))[i].text), kwFollowing)
    /\ tasks[t].verdict.followState = "not_following"

\* The words of a result that qualify for the username slot, and those of
\* them whose raw text starts with a handle mark
UsernamePlaces(data) == Qualifying("username", data)
MarkedPlaces(data) == {i \in UsernamePlaces(data) : HandleMarked(WordsOf(data)[i])}
HoldsWord(held, word) ==
  /\ held # <<>>
  /\ held[1].text = word.text
  /\ held[1].y = word.bbox.y0 + word.bbox.y1

\* C31: after the scan the username slot holds the first qualifying word
\* whose raw text starts with "@" or the copyright sign, as a strong
\* candidate, when there is one: it has replaced an earlier candidate without
\* a mark, and no later word, marked or not, has replaced it.  With no marked
\* word the slot holds the first qualifying word, not strong.  The mark is
\* looked for in the raw text.
C31_StrongUsername ==
  \A t \in Classified :
    LET data == DataOf(t)
        held == ElementsOf(data).username
    IN /\ UsernamePlaces(data) = {} => held = <<>>
       /\ MarkedPlaces(data) # {} =>
            /\ HoldsWord(held, WordsOf(data)[First(MarkedPlaces(data))])
            /\ held[1].isStrong
       /\ UsernamePlaces(data) # {} /\ MarkedPlaces(data) = {} =>
            /\ HoldsWord(held, WordsOf(data)[First(UsernamePlaces(data))])
            /\ ~held[1].isStrong

\* A result whose first word took the username slot without a mark and whose
\* second word, with a mark, holds the slot after the scan.
C31_Witness ==
  \E t \in Classified :
    /\ Len(WordsOf(DataOf(t))) = 2
    /\ UsernamePlaces(DataOf(t)) = {1, 2}
    /\ MarkedPlaces(DataOf(t)) = {2}
    /\ WordsOf(DataOf(t))[1].bbox # WordsOf(DataOf(t))[2].bbox
    /\ HoldsWord(ElementsOf(DataOf(t)).username, WordsOf(DataOf(t))[2])
    /\ ElementsOf(DataOf(t)).username[1].isStrong

\* A result of one word whose centre has relX < 0.6 and relY in [0.20, 0.55]
OneWordInBoth(data) ==
  /\ Len(WordsOf(data)) = 1
  /\ 100 * (WordsOf(data)[1].bbox.x0 + WordsOf(data)[1].bbox.x1) < 60 * 2 * WidthOf(data)
  /\ 100 * (WordsOf(data)[1].bbox.y0 + WordsOf(data)[1].bbox.y1) >= 20 * 2 * HeightOf(data)
  /\ 100 * (WordsOf(data)[1].bbox.y0 + WordsOf(data)[1].bbox.y1) <= 55 * 2 * HeightOf(data)

\* The word is kept by the scan: its normalized text has two characters or more
KeptByScan(word) == Len(normalizeText(word.text)) >= 2

\* The keyword landmarks that the word of a one-word result fills
KeywordSlots(data) == LandmarksOf(data) \cap {"joinedDate", "followingRow"}

WellFormed(verdict) ==
  /\ DOMAIN verdict = {"isValid", "reason", "followState", "confidence"}
  /\ verdict.isValid \in BOOLEAN
  /\ verdict.followState \in {"following", "not_following", "unknown"}
  /\ verdict.isValid => verdict.confidence \in {85, 95}
  /\ ~verdict.isValid =>
       verdict.followState = "unknown" /\ verdict.confidence \in {0, 20, 40, 50}

\* C33: every verdict of the classifier has the four fields; an invalid one
\* has followState unknown and a confidence of 0, 20, 40 or 50; a valid one
\* has a confidence of 85 or 95 and a result with one strong landmark or more
\* (a handle-marked username, a joinedDate or a followingRow); so following
\* and not_following are reported in valid verdicts only.
C33_VerdictWellFormed ==
  /\ \A w \in DimValues, h \in DimValues : WellFormed(validateProfileLayout(Null, w, h))
  /\ \A t \in Classified :
       /\ WellFormed(tasks[t].verdict)
       /\ tasks[t].verdict.isValid => StrongOf(DataOf(t)) # {}
       /\ tasks[t].verdict.followState \in {"following", "not_following"}
            => tasks[t].verdict.isValid

\* A result whose follow button says Following and whose verdict is invalid:
\* the verdict reports unknown.
C33_Witness ==
  \E t \in Classified :
    /\ ButtonOf(DataOf(t)) # <<>>
    /\ ButtonSays(DataOf(t)) = "following"
    /\ ~tasks[t].verdict.isValid
    /\ tasks[t].verdict.confidence = 40
    /\ tasks[t].verdict.followState = "unknown"

\* The handler of task t has decided on its submission: accepted or escalated
Decided(t) == tasks[t].decision \in {"auto_accept", "escalate"}

\* C34: of two submissions made under the same session, one at most gets a
\* decision: two handlers that hold the same session object have not both
\* decided.
C34_OneDecisionPerSession ==
  \A t1, t2 \in Tasks :
    /\ t1 # t2
    /\ tasks[t1].ref # Absent
    /\ tasks[t1].ref = tasks[t2].ref
    => ~(Decided(t1) /\ Decided(t2))

\* The handler of task t works for a session that its user has replaced since
Stale(t) ==
  /\ tasks[t].pc # "idle"
  /\ HasSession(tasks[t].user)
  /\ userSessions[tasks[t].user] # tasks[t].ref

\* C35: a step of a handler that was started under the previous session of
\* its user leaves the session that /start or /cancel has created since as
\* it is: in the map, with its step, handle and attempts.
C35_StaleHandlerKeepsNewSession ==
  [][\A t \in Tasks :
       Stale(t) /\ tasks'[t] # tasks[t]
       => /\ userSessions'[tasks[t].user] = userSessions[tasks[t].user]
          /\ heap'[userSessions[tasks[t].user]].step = Session(tasks[t].user).step
          /\ heap'[userSessions[tasks[t].user]].username = Session(tasks[t].user).username
          /\ heap'[userSessions[tasks[t].user]].attempts = Session(tasks[t].user).attempts]_vars

\* C36: when the operator's Verify button records user u as verified, the
\* handle that is stored is the handle of a case of u with buttons in the
\* operator channel: the handle that u had claimed when the case was sent.
C36_VerifyRecordsClaimedHandle ==
  [][\A u \in Users :
       /\ lastEvent'.op = "verify_button"
       /\ dbUsers'[u] # dbUsers[u]
       => \E m \in adminGroup :
            /\ m.user = u /\ m.buttons
            /\ dbUsers'[u][1].x_username = m.handle]_vars

\* User u is recorded as verified in the database
RecordedVerified(users, u) == users[u] # Null /\ users[u][1].verified

\* C37: the reply "Verified!" goes to a user, from the auto-accept path or
\* from the operator's Verify button, only when the database holds the user
\* as verified; and the auto-accept path takes the session out of the map
\* only then.
C37_VerifiedOnlyIfRecorded ==
  [][/\ lastEvent'.reply = "verified"
        => RecordedVerified(dbUsers', lastEvent'.user)
     /\ \A t \in Tasks :
          /\ tasks[t].pc = "accept_sends"
          /\ tasks'[t].pc = "idle"
          /\ userSessions[tasks[t].user] # Absent
          /\ userSessions'[tasks[t].user] = Absent
          => RecordedVerified(dbUsers', tasks[t].user)]_vars

\* User a tries to resolve a case: the Verify or the Reject button of a
\* request, the /verify command, or an answer yes or no in the operator channel
TriesToResolve(a) ==
  \/ \E m \in adminGroup, dbOk \in BOOLEAN, sendOk \in BOOLEAN :
        VerifyButton(a, m, dbOk, sendOk)
  \/ \E m \in adminGroup, sendOk \in BOOLEAN : DeclineButton(a, m, sendOk)
  \/ \E h \in VerifyInputs, dbOk \in BOOLEAN, sendOk \in BOOLEAN :
        VerifyCommand(a, h, dbOk, sendOk)
  \/ \E m \in adminGroup, text \in {Yes, No, <<" ","N","o">>},
        dbOk \in BOOLEAN, sendOk \in BOOLEAN : AdminReply(a, m, text, dbOk, sendOk)

\* C38: an attempt to resolve a case by a user other than the operator leaves
\* the session map, the sessions and the database of verified users as they
\* were.
C38_OnlyOperatorResolves ==
  [][\A a \in Users \ {ADMIN_ID} :
       TriesToResolve(a)
       => /\ userSessions' = userSessions
          /\ heap' = heap
          /\ dbUsers' = dbUsers
          /\ adminGroup' = adminGroup]_vars

\* A user other than the operator has pressed Reject on a request with
\* buttons while the session of the case is in the map: the request has its
\* buttons and the user is not verified.
C38_Witness ==
  /\ lastEvent.op = "decline_button"
  /\ lastEvent.user # ADMIN_ID
  /\ lastEvent.reply = "admin_only"
  /\ \E m \in adminGroup :
       m.buttons /\ HasSession(m.user) /\ dbUsers[m.user] = Null

\* The step is a call of checkRateLimit for user u that returns result
\* ("next" for true, "slow_down" for false)
CallReturns(u, result) == lastEvent' = Event("rate_limit", u, result)

\* C39: a user is admitted MAX_REQUESTS_PER_WINDOW (5) times at most while
\* the window of the user stays as it was set; a call that is rejected leaves
\* the count and the reset time of the user as they were; a call for one
\* user leaves the entries of the other users as they were; and a call made
\* after the reset time of the user has passed is admitted.
C39_RateLimit ==
  /\ [](\A u \in Users : admitted[u] <= 5)
  /\ [][\A u \in Users :
          /\ CallReturns(u, "slow_down") => userRateLimits'[u] = userRateLimits[u]
          /\ CallReturns(u, "next") \/ CallReturns(u, "slow_down")
               => \A v \in Users \ {u} : userRateLimits'[v] = userRateLimits[v]
          /\ /\ userRateLimits[u] # Null
             /\ now > userRateLimits[u][1].resetTime
             /\ lastEvent'.op = "rate_limit" /\ lastEvent'.user = u
             => CallReturns(u, "next")]_allVars

\* A user has been admitted five times and is told to slow down at the very
\* reset time of the window, which has not passed yet; another user has a
\* later window with fewer calls.
C39_Witness ==
  \E u, v \in Users :
    /\ u # v
    /\ lastEvent = Event("rate_limit", u, "slow_down")
    /\ admitted[u] = 5
    /\ userRateLimits[u][1].count = 5
    /\ now = userRateLimits[u][1].resetTime
    /\ userRateLimits[v] # Null
    /\ admitted[v] \in 1..4
    /\ userRateLimits[v][1].resetTime > userRateLimits[u][1].resetTime

\* The warning count of user u in the cache of the database
WarningsOf(users, u) == users[u][1].warnings_count

\* C40: when a denial brings the warning count of the claiming user to
\* MAX_WARNINGS (3), the operator channel gets the notice 'User Hit Max
\* Warnings' for that user, and the warning sent to the user, when it is
\* delivered, shows the new count.
C40_MaxWarningsNotified ==
  [][\A u \in Users :
       /\ lastEvent'.op = "deny_follow"
       /\ dbUsers[u] # Null
       /\ WarningsOf(dbUsers', u) = WarningsOf(dbUsers, u) + 1
       /\ WarningsOf(dbUsers', u) = MAX_WARNINGS
       => /\ \E m \in adminGroup' : m.kind = "max_warnings" /\ m.user = u
          /\ lastEvent'.reply \in {"none", "Warning 3/3"}]_vars

====
